---- MODULE Spec2Model ----
(***************************************************************************)
(* A model of the loki-producer ingest gateway: the push handler, the      *)
(* hot-reload controller, the Kafka writer handle, the rate limiters and   *)
(* the metrics registry's counters.                                        *)
(*                                                                         *)
(* Scalars: durations are whole seconds, rates (rps) are tenths of a       *)
(* request per second, the error-rate threshold is in hundredths.          *)
(***************************************************************************)
EXTENDS Integers, Sequences, FiniteSets, TLC

\* ------------------------------------------------------------------ bounds
\* A run is one of two kinds (its "world"): in the push world up to MaxRequests
\* requests are served, two at a time, under the configuration the process
\* started with; in the reload world up to MaxReloads calls of Reload run
\* against a single request.  Further worlds exercise one part each: "inputs"
\* serves requests one after another with every kind of request input and
\* producer error; "burst" serves requests with no time passing between them;
\* "health" runs the health evaluator and /ready beside requests; "tick" runs
\* the health evaluator beside requests and reloads of its settings; "admin"
\* runs /configz beside reloads; "frame" and "rejects" run a request beside
\* a reload, and requests against a small global budget; "live" runs a
\* request, both callers of Reload, the health evaluator, /configz and Stop.
MaxRequests == 2
MaxReloads == 1

RequestBudget(w) ==
  CASE w \in {"push", "inputs", "burst", "health", "tick", "limits", "rejects"}
         -> MaxRequests
    [] w \in {"admin", "reloads", "validate"} -> 0
    [] OTHER -> 1
ReloadBudget(w) ==
  CASE w \in {"reload", "tick", "admin", "validate", "frame"} -> MaxReloads
    [] w \in {"reloads", "live"} -> MaxReloads + 1
    [] OTHER -> 0

\* handler goroutines are interchangeable: a request takes the first free slot
Handlers == {"h1", "h2"}
EarlierHandlers(h) == IF h = "h2" THEN {"h1"} ELSE {}
Reloaders == {"sighup", "http"}

Nil == 0
NoErr == ""

\* ------------------------------------------------------- strings (library)
\* strings.ToLower / strings.TrimSpace over the strings the model uses
ToLower(s) ==
  CASE s = "HASH" -> "hash"
    [] s = "Sticky" -> "sticky"
    [] s = "RoundRobin" -> "roundrobin"
    [] s = "SCRAM-SHA-256" -> "scram-sha-256"
    [] s = "Unknown Topic Or Partition" -> "unknown topic or partition"
    [] s = "Not Leader For Partition: i/o timeout" -> "not leader for partition: i/o timeout"
    [] s = "kafka: Message Too Large" -> "kafka: message too large"
    [] s = "Request Timeout" -> "request timeout"
    [] s = "EOF" -> "eof"
    [] OTHER -> s

\* the fragments the classifier looks for that occur in s
Fragments(s) ==
  CASE s = "unknown topic or partition" -> {"unknown topic"}
    [] s = "not leader for partition: i/o timeout" -> {"not leader", "timeout"}
    [] s = "kafka: message too large" -> {"message too large"}
    [] s = "request timeout" -> {"timeout"}
    [] s = "write tcp 10.0.0.1:9092: i/o timeout" -> {"timeout"}
    [] s = "dial tcp 10.0.0.1:9092: connect: connection refused" -> {"connection refused"}
    [] s = "read tcp 10.0.0.1:9092: connection reset by peer" -> {"connection reset"}
    [] s = "write: broken pipe" -> {"broken pipe"}
    [] OTHER -> { }

\* strings.Contains(s, sub), for sub one of the classifier's fragments
Contains(s, sub) == sub \in Fragments(s)

TrimSpace(s) ==
  CASE s = " hash " -> "hash"
    [] s = " " -> ""
    [] s = " u " -> "u"
    [] OTHER -> s

\* ------------------------------------------------------------ config model
defaultConfig ==
  [ KafkaBrokers |-> << >>,
    KafkaTopic |-> "",
    KafkaRequiredAcks |-> 1,
    KafkaBalancer |-> "sticky",
    KafkaWriteTimeout |-> 10,
    KafkaSASLEnabled |-> FALSE,
    KafkaSASLMechanism |-> "scram-sha-512",
    KafkaSASLUsername |-> "",
    KafkaSASLPassword |-> "",
    KafkaTLSEnabled |-> FALSE,
    KafkaTLSInsecureSkipVerify |-> FALSE,
    KafkaTLSCAFile |-> "",
    KafkaProbeEnabled |-> TRUE,
    KafkaProbeRequired |-> TRUE,
    KafkaProbeTimeout |-> 5,
    KafkaProbeWrite |-> FALSE,
    MaxBodyBytes |-> 5242880,
    AllowEmptyTenant |-> FALSE,
    DefaultTenant |-> "anonymous",
    MetricsEnableTenantLabel |-> FALSE,
    HealthErrorRateThreshold |-> 5,
    HealthConsecutiveErrorThreshold |-> 5,
    HealthEvalPeriod |-> 30,
    SLAGaugeEnable |-> TRUE,
    RateLimitEnabled |-> FALSE,
    RateLimitGlobalRPS |-> 0,
    RateLimitGlobalBurst |-> 0,
    RateLimitPerTenantRPS |-> 0,
    RateLimitPerTenantBurst |-> 0,
    LogLevel |-> "info",
    Quiet |-> FALSE,
    Port |-> "3101" ]

normalizeBalancer(v) ==
  LET l == ToLower(TrimSpace(v)) IN
  CASE l \in {"", "sticky"} -> "sticky"
    [] l \in {"round_robin", "roundrobin", "round-robin"} -> "round_robin"
    [] l = "hash" -> "hash"
    [] l \in {"least", "least_bytes", "least-bytes"} -> "sticky"
    [] OTHER -> v

\* Config.Validate: the error text, NoErr when the configuration is accepted
Validate(c) ==
  CASE Len(c.KafkaBrokers) = 0 -> "kafka_brokers required"
    [] c.KafkaTopic = "" -> "kafka_topic required"
    [] ToLower(c.KafkaBalancer) \notin {"sticky", "round_robin", "roundrobin", "hash"}
         -> "unsupported kafka_balancer"
    [] c.KafkaWriteTimeout <= 0 -> "kafka_write_timeout must be > 0"
    [] c.KafkaSASLEnabled
         /\ ToLower(TrimSpace(c.KafkaSASLMechanism)) \notin {"scram-sha-512", "scram-sha-256"}
         -> "unsupported kafka_sasl_mechanism"
    [] c.KafkaSASLEnabled /\ TrimSpace(c.KafkaSASLUsername) = ""
         -> "kafka_sasl_username required when SASL enabled"
    [] c.KafkaProbeTimeout <= 0 -> "kafka_probe_timeout must be > 0"
    [] c.MaxBodyBytes <= 0 -> "max_body_bytes must be > 0"
    [] c.HealthEvalPeriod <= 0 -> "health_eval_period must be > 0"
    [] c.HealthErrorRateThreshold < 0 \/ c.HealthErrorRateThreshold > 100
         -> "health_error_rate_threshold must be between 0 and 1"
    [] c.RateLimitGlobalRPS < 0 \/ c.RateLimitPerTenantRPS < 0
         -> "rate limits RPS must be >= 0"
    [] c.RateLimitGlobalBurst < 0 \/ c.RateLimitPerTenantBurst < 0
         -> "rate limit bursts must be >= 0"
    [] c.LogLevel \notin {"info", "debug"} -> "invalid log_level"
    [] OTHER -> NoErr

\* The config file on disk: unreadable, not YAML, or a YAML document whose
\* keys, laid over defaultConfig, give the record c.
Parse(data) ==
  IF data.k = "badyaml" THEN [err |-> "yaml unmarshal", cfg |-> defaultConfig]
  ELSE LET c == [data.c EXCEPT !.KafkaBalancer = normalizeBalancer(data.c.KafkaBalancer)]
       IN  IF Validate(c) # NoErr THEN [err |-> Validate(c), cfg |-> defaultConfig]
           ELSE [err |-> NoErr, cfg |-> c]

LoadFromFile(f) ==
  IF f.k = "unreadable" THEN [err |-> "open config", cfg |-> defaultConfig]
  ELSE Parse(f)

ImmutableSubset(c) ==
  [ KafkaBrokers |-> c.KafkaBrokers,
    KafkaTopic |-> c.KafkaTopic,
    KafkaRequiredAcks |-> c.KafkaRequiredAcks,
    KafkaBalancer |-> c.KafkaBalancer,
    KafkaWriteTimeout |-> c.KafkaWriteTimeout,
    KafkaSASLEnabled |-> c.KafkaSASLEnabled,
    KafkaSASLMechanism |-> c.KafkaSASLMechanism,
    KafkaSASLUsername |-> c.KafkaSASLUsername,
    KafkaTLSEnabled |-> c.KafkaTLSEnabled,
    KafkaTLSInsecureSkipVerify |-> c.KafkaTLSInsecureSkipVerify,
    KafkaTLSCAFile |-> c.KafkaTLSCAFile,
    MetricsEnableTenantLabel |-> c.MetricsEnableTenantLabel ]

ImmutableChanged(a, b) == a # b

\* ------------------------------------------------------------ kafka writer
\* the environment of the process: KAFKA_SASL_PASSWORD and the CA files that
\* exist on disk and hold a PEM certificate
EnvSASLPassword == ""
ReadableCAFiles == {"ca.pem"}

WriterConfigOf(c) ==
  [ Brokers |-> c.KafkaBrokers,
    Topic |-> c.KafkaTopic,
    RequiredAcks |-> c.KafkaRequiredAcks,
    Balancer |-> c.KafkaBalancer,
    WriteTimeout |-> c.KafkaWriteTimeout,
    SASLEnabled |-> c.KafkaSASLEnabled,
    SASLMechanism |-> c.KafkaSASLMechanism,
    SASLUsername |-> c.KafkaSASLUsername,
    SASLPassword |-> c.KafkaSASLPassword,
    TLSEnabled |-> c.KafkaTLSEnabled,
    TLSInsecureSkipVerify |-> c.KafkaTLSInsecureSkipVerify,
    TLSCAFile |-> c.KafkaTLSCAFile ]

\* kafka.NewWriter: the error text (NoErr on success) and the writer object
NewWriter(wc) ==
  LET balancer == CASE wc.Balancer \in {"", "least_bytes", "least-bytes", "least", "sticky"}
                         -> "LeastBytes"
                    [] wc.Balancer \in {"round_robin", "roundrobin"} -> "RoundRobin"
                    [] wc.Balancer = "hash" -> "Hash"
                    [] OTHER -> "unknown"
      reqAcks == CASE wc.RequiredAcks = 0 -> "RequireNone"
                   [] wc.RequiredAcks = 1 -> "RequireOne"
                   [] OTHER -> "RequireAll"
      pass == IF wc.SASLPassword = "" THEN EnvSASLPassword ELSE wc.SASLPassword
      user == TrimSpace(wc.SASLUsername)
      err == CASE Len(wc.Brokers) = 0 -> "no kafka brokers"
               [] balancer = "unknown" -> "unknown balancer"
               [] wc.TLSEnabled /\ TrimSpace(wc.TLSCAFile) # ""
                    /\ wc.TLSCAFile \notin ReadableCAFiles -> "read ca file"
               [] wc.SASLEnabled /\ (user = "" \/ pass = "")
                    -> "SASL enabled but username/password not provided"
               [] wc.SASLEnabled
                    /\ ToLower(TrimSpace(wc.SASLMechanism)) \notin {"scram-sha-512", "scram-sha-256"}
                    -> "unsupported SASL mechanism"
               [] OTHER -> NoErr
  IN [ err |-> err,
       w |-> [ Addr |-> wc.Brokers,
               Topic |-> wc.Topic,
               Balancer |-> balancer,
               RequiredAcks |-> reqAcks,
               TLS |-> IF wc.TLSEnabled
                       THEN [on |-> TRUE, insecure |-> wc.TLSInsecureSkipVerify,
                             ca |-> TrimSpace(wc.TLSCAFile)]
                       ELSE [on |-> FALSE, insecure |-> FALSE, ca |-> ""],
               SASL |-> IF wc.SASLEnabled
                        THEN [on |-> TRUE, mech |-> ToLower(TrimSpace(wc.SASLMechanism)),
                              user |-> user, pass |-> pass]
                        ELSE [on |-> FALSE, mech |-> "", user |-> "", pass |-> ""],
               DialTimeout |-> wc.WriteTimeout,
               closed |-> FALSE,
               closes |-> 0,
               inflight |-> 0 ] ]

\* ------------------------------------------------- the config file on disk
Yaml(c) == [k |-> "yaml", c |-> c]

BaseCfg ==
  [defaultConfig EXCEPT !.KafkaBrokers = <<"b1:9092">>, !.KafkaTopic = "t",
                        !.MaxBodyBytes = 2]

\* contents the config file may have when it is read (at startup or on reload)
FBase == Yaml(BaseCfg)
FBrokers == Yaml([BaseCfg EXCEPT !.KafkaBrokers = <<"b2:9092">>])
FHash == Yaml([BaseCfg EXCEPT !.KafkaBalancer = "HASH"])
FMutable ==
  Yaml([BaseCfg EXCEPT !.AllowEmptyTenant = TRUE, !.DefaultTenant = "anon",
                       !.RateLimitEnabled = TRUE,
                       !.RateLimitGlobalRPS = 10, !.RateLimitGlobalBurst = 2,
                       !.RateLimitPerTenantRPS = 3, !.RateLimitPerTenantBurst = 0])
FGlobalOnly ==
  Yaml([BaseCfg EXCEPT !.RateLimitEnabled = TRUE,
                       !.RateLimitGlobalRPS = 3, !.RateLimitGlobalBurst = 0])
FSasl1 ==
  Yaml([BaseCfg EXCEPT !.KafkaSASLEnabled = TRUE, !.KafkaSASLUsername = "u",
                       !.KafkaSASLPassword = "p1"])
FSasl2 ==
  Yaml([BaseCfg EXCEPT !.KafkaSASLEnabled = TRUE, !.KafkaSASLUsername = "u",
                       !.KafkaSASLPassword = "p2"])
FSaslNoPassword ==
  Yaml([BaseCfg EXCEPT !.KafkaSASLEnabled = TRUE, !.KafkaSASLUsername = "u"])
FTlsMissingCA ==
  Yaml([BaseCfg EXCEPT !.KafkaTLSEnabled = TRUE, !.KafkaTLSCAFile = "missing.pem"])
FTenantLabel == Yaml([BaseCfg EXCEPT !.MetricsEnableTenantLabel = TRUE])
FNoTopic == Yaml([BaseCfg EXCEPT !.KafkaTopic = ""])
FBadBalancer == Yaml([BaseCfg EXCEPT !.KafkaBalancer = "random"])
FUnreadable == [k |-> "unreadable"]
FBadYaml == [k |-> "badyaml"]

FHashAnon ==
  Yaml([BaseCfg EXCEPT !.KafkaBalancer = "hash",
                       !.AllowEmptyTenant = TRUE, !.DefaultTenant = "anon",
                       !.RateLimitEnabled = TRUE,
                       !.RateLimitPerTenantRPS = 3, !.RateLimitPerTenantBurst = 0])
FBurst2 ==
  Yaml([BaseCfg EXCEPT !.RateLimitEnabled = TRUE,
                       !.RateLimitGlobalRPS = 10, !.RateLimitGlobalBurst = 2])
FBurstLabel ==
  Yaml([BaseCfg EXCEPT !.RateLimitEnabled = TRUE,
                       !.RateLimitGlobalRPS = 3, !.RateLimitGlobalBurst = 0,
                       !.MetricsEnableTenantLabel = TRUE])
FProbeOff == Yaml([BaseCfg EXCEPT !.KafkaProbeEnabled = FALSE])
FProbeOptional == Yaml([BaseCfg EXCEPT !.KafkaProbeRequired = FALSE, !.KafkaProbeWrite = TRUE])
FProbeWrite == Yaml([BaseCfg EXCEPT !.KafkaProbeWrite = TRUE])
FPort == Yaml([BaseCfg EXCEPT !.Port = "3102"])
FPeriod == Yaml([BaseCfg EXCEPT !.HealthEvalPeriod = 10])
FSlaOff == Yaml([BaseCfg EXCEPT !.SLAGaugeEnable = FALSE])
FHealthLoose ==
  Yaml([BaseCfg EXCEPT !.HealthErrorRateThreshold = 60,
                       !.HealthConsecutiveErrorThreshold = 2])

InvalidFiles == { FNoTopic, FBadBalancer, FUnreadable, FBadYaml }

\* contents that break one rule of Validate each, and contents that use an
\* alias or another spelling of an accepted value
FNoBrokers == Yaml([BaseCfg EXCEPT !.KafkaBrokers = << >>])
FZeroWriteTimeout == Yaml([BaseCfg EXCEPT !.KafkaWriteTimeout = 0])
FBadMechanism ==
  Yaml([BaseCfg EXCEPT !.KafkaSASLEnabled = TRUE, !.KafkaSASLUsername = "u",
                       !.KafkaSASLPassword = "p1", !.KafkaSASLMechanism = "plain"])
FBlankUsername ==
  Yaml([BaseCfg EXCEPT !.KafkaSASLEnabled = TRUE, !.KafkaSASLUsername = " ",
                       !.KafkaSASLPassword = "p1"])
FZeroProbeTimeout == Yaml([BaseCfg EXCEPT !.KafkaProbeTimeout = 0])
FZeroBody == Yaml([BaseCfg EXCEPT !.MaxBodyBytes = 0])
FZeroPeriod == Yaml([BaseCfg EXCEPT !.HealthEvalPeriod = 0])
FRateAboveOne == Yaml([BaseCfg EXCEPT !.HealthErrorRateThreshold = 101])
FRateBelowZero == Yaml([BaseCfg EXCEPT !.HealthErrorRateThreshold = -1])
FNegStreak == Yaml([BaseCfg EXCEPT !.HealthConsecutiveErrorThreshold = -1])
FNegRps == Yaml([BaseCfg EXCEPT !.RateLimitEnabled = TRUE, !.RateLimitPerTenantRPS = -1])
FNegBurst == Yaml([BaseCfg EXCEPT !.RateLimitEnabled = TRUE, !.RateLimitGlobalBurst = -1])
FBadLogLevel == Yaml([BaseCfg EXCEPT !.LogLevel = "trace"])
FLeastBytes == Yaml([BaseCfg EXCEPT !.KafkaBalancer = "least_bytes"])
FRoundRobin == Yaml([BaseCfg EXCEPT !.KafkaBalancer = "RoundRobin"])
FUpperMechanism ==
  Yaml([BaseCfg EXCEPT !.KafkaSASLEnabled = TRUE, !.KafkaSASLUsername = " u ",
                       !.KafkaSASLPassword = "p1", !.KafkaSASLMechanism = "SCRAM-SHA-256"])
ValidateFiles ==
  { FNoBrokers, FNoTopic, FBadBalancer, FZeroWriteTimeout, FBadMechanism, FBlankUsername,
    FZeroProbeTimeout, FZeroBody, FZeroPeriod, FRateAboveOne, FRateBelowZero, FNegStreak,
    FNegRps, FNegBurst, FBadLogLevel, FLeastBytes, FRoundRobin, FUpperMechanism, FBase,
    FHash, FBadYaml }

\* rate-limit settings of one scope, as <<rps in tenths, burst>>, and the files
\* that enable rate limiting with one of them per scope
LimitSettings ==
  { <<0, 0>>, <<0, 2>>, <<3, 0>>, <<3, 1>>, <<5, 0>>, <<14, 0>>, <<100, 0>>, <<100, 3>> }
LimitFiles ==
  { Yaml([BaseCfg EXCEPT !.RateLimitEnabled = TRUE,
                         !.RateLimitGlobalRPS = g[1], !.RateLimitGlobalBurst = g[2],
                         !.RateLimitPerTenantRPS = t[1], !.RateLimitPerTenantBurst = t[2]]) :
      g \in LimitSettings, t \in LimitSettings }

\* The file contents a run draws from, by the part of the program it exercises:
\* the contents the process may be started with and those a reload may read.
StartFilesOf(w) ==
  CASE w = "push" -> { FBase, FHash, FMutable, FGlobalOnly, FTenantLabel }
    [] w = "reload" -> { FBase, FMutable, FSasl1 }
    [] w = "inputs" -> { FMutable, FHashAnon, FGlobalOnly, FTenantLabel }
    [] w = "burst" -> { FGlobalOnly, FBurst2, FBurstLabel }
    [] w = "health" -> { FBase, FSlaOff, FHealthLoose }
    [] w = "tick" -> { FSlaOff, FHealthLoose }
    [] w = "start" -> { FBase, FProbeOff, FProbeOptional, FProbeWrite }
    [] w = "reloads" -> { FBase, FMutable }
    [] w = "limits" -> LimitFiles
    [] w = "headers" -> { FBase, FMutable }
    [] w = "validate" -> { FBase, FLeastBytes, FUpperMechanism }
    [] w \in {"stop", "live"} -> { FBase }
    [] w \in {"frame", "rejects"} -> { FGlobalOnly }
    [] w = "admin" -> { FBase, FSasl1, FSasl2 }

ReloadFilesOf(w) ==
  CASE w = "push" -> { FBrokers, FBadYaml }
    [] w = "reload" -> { FBase, FHash, FMutable, FSasl2, FSaslNoPassword, FTlsMissingCA }
                       \cup InvalidFiles
    [] w = "tick" -> { FBase, FHealthLoose, FPeriod }
    [] w = "admin" -> { FBase, FSasl1, FSasl2, FHash, FBadYaml }
    [] w = "reloads" -> { FBase, FHash, FBrokers, FMutable, FTlsMissingCA, FBadYaml,
                          FPort, FProbeOff }
    [] w = "validate" -> ValidateFiles
    [] w = "frame" -> { FBrokers, FBadYaml }
    [] w = "live" -> { FBrokers }
    [] OTHER -> { }

\* ------------------------------------------------------------ rate limiters
\* burst derivation of buildRateLimitersLocked: int(rps * 2), at least 1
DeriveBurstUnclamped(rps, burst) == IF burst <= 0 THEN (rps * 2) \div 10 ELSE burst

DeriveBurst(rps, burst) ==
  IF burst <= 0
  THEN (IF (rps * 2) \div 10 < 1 THEN 1 ELSE (rps * 2) \div 10)
  ELSE burst

\* rate.NewLimiter: a token bucket that starts full
newTokenLimiter(rps, burst) == [rps |-> rps, burst |-> burst, tokens |-> burst]

\* newPerTenantLimiter: an empty tenant map
newPerTenantLimiter(rps, burst) ==
  [rps |-> rps, burst |-> burst, limiters |-> << >>]


\* -------------------------------------------------------------------- state
VARIABLES
  world,             \* which file contents the run draws from (never changes)
  cfg,               \* Server.cfg
  kWriter,           \* Server.kWriter: index into writers
  writers,           \* the kafka.Writer objects built so far
  globalLimiter,     \* Server.globalLimiter: index into gLims, or Nil
  tenantLimiters,    \* Server.tenantLimiters: index into tLims, or Nil
  gLims,             \* the global token buckets built so far
  tLims,             \* the perTenantLimiter objects built so far
  mu,                \* Server.mu (sync.RWMutex)
  reloadMu,          \* config.ReloadMutex
  metrics,           \* metrics.Registry
  consecutiveErrors, \* Server.consecutiveErrors
  hs,                \* the push handlers (one goroutine per request)
  rl,                \* the callers of Reload
  nreq,              \* requests accepted so far
  nreload,           \* Reload calls so far
  published,         \* history: the (cfg, limiters, writer) tuples visible outside the write lock
  hl,                \* the healthLoop goroutine: Server.prevTotal/prevSuccess/prevErrors and its locals
  adm,               \* the last answers of /ready and /configz
  crashed,           \* an unrecovered panic has ended the process
  life               \* Start and Stop: the listener, the stopHealth channel, where each call is

vars ==
  << world, cfg, kWriter, writers, globalLimiter, tenantLimiters, gLims, tLims, mu,
     reloadMu, metrics, consecutiveErrors, hs, rl, nreq, nreload, published,
     hl, adm, crashed, life >>

NoHolder == "none"

\* request inputs
TenantHeaders == {"", "acme"}
Bodies == { <<1, 2>>, <<1, 2, 3>> }
ContentTypes == {"application/json"}
ContentEncodings == {""}
\* where the body stream breaks: << >> never, <<n>> after n bytes
ReadErrAts == { << >>, <<1>> }
ErrClosedPipe == "io: read/write on closed pipe"
KafkaErrs == {"Unknown Topic Or Partition"}

\* the request inputs a world draws from
PlainWorlds == {"burst", "health", "tick", "start", "stop", "limits", "live"}
TenantHeadersOf(w) == IF w \in PlainWorlds \ {"limits"} THEN {"acme"} ELSE TenantHeaders
BodiesOf(w) ==
  CASE w \in PlainWorlds -> { <<1, 2>> }
    [] w = "inputs" -> Bodies \cup { << >>, <<7>> }
    [] OTHER -> Bodies
ReadErrAtsOf(w) == IF w \in PlainWorlds THEN { << >> } ELSE ReadErrAts
ContentTypesOf(w) ==
  IF w = "headers" THEN ContentTypes \cup {"", "application/x-protobuf"} ELSE ContentTypes
ContentEncodingsOf(w) ==
  IF w = "headers" THEN ContentEncodings \cup {"snappy"} ELSE ContentEncodings
Methods == {"POST", "GET"}
MethodsOf(w) == IF w = "inputs" THEN Methods ELSE {"POST"}

\* an error value returned by the producer: its text, whether it is (or wraps)
\* context.DeadlineExceeded, and whether it is a net.Error ("no", or what its
\* Timeout() answers: "timeout" / "other")
ErrorValue(text, deadline, net) == [text |-> text, deadline |-> deadline, net |-> net]
NoErrorValue == ErrorValue(NoErr, FALSE, "no")
ClosedPipeError == ErrorValue(ErrClosedPipe, FALSE, "no")
WriteErrors ==
  { ErrorValue(t, FALSE, "no") : t \in KafkaErrs } \cup
  { ErrorValue("context deadline exceeded", TRUE, "timeout"),
    ErrorValue("write tcp 10.0.0.1:9092: i/o timeout", FALSE, "timeout"),
    ErrorValue("dial tcp 10.0.0.1:9092: connect: connection refused", FALSE, "other"),
    ErrorValue("read tcp 10.0.0.1:9092: connection reset by peer", FALSE, "other"),
    ErrorValue("no route to host", FALSE, "other"),
    ErrorValue("Not Leader For Partition: i/o timeout", FALSE, "no"),
    ErrorValue("kafka: Message Too Large", FALSE, "no"),
    ErrorValue("write: broken pipe", FALSE, "no"),
    ErrorValue("Request Timeout", FALSE, "no"),
    ErrorValue("EOF", FALSE, "no") }
WriteErrorsOf(w) ==
  IF w = "inputs" THEN WriteErrors ELSE { ErrorValue(t, FALSE, "no") : t \in KafkaErrs }

\* msgs, reqInc, obs, obsLabel, dTotal, dSuccess and dErrors are history: what the
\* request handed to the producer, and how often it touched each metric; so are
\* sent (the bytes of the request body), kerrv (the error value the producer
\* returned) and errType (the label given to kafka_write_errors_total)
IdleHandler ==
  [ pc |-> "idle", cfg |-> defaultConfig, gl |-> Nil, tl |-> Nil, kw |-> Nil,
    method |-> "", hdr |-> "", tenant |-> "", ctRaw |-> "", ce |-> "",
    sent |-> << >>, body |-> << >>,
    status |-> 0, result |-> "", text |-> "",
    msgs |-> << >>, kerr |-> NoErr, kerrv |-> NoErrorValue, errType |-> "", ktmp |-> 0,
    isSuccess |-> FALSE, isError |-> FALSE,
    reqInc |-> 0, obs |-> 0, obsLabel |-> "", dTotal |-> 0, dSuccess |-> 0, dErrors |-> 0 ]

\* file, oldCfg and prevWriter are history: the file content the call read, and
\* s.cfg and s.kWriter as the call found them under the write lock
IdleReloader ==
  [ pc |-> "idle", newCfg |-> defaultConfig, newWriter |-> Nil, oldWriter |-> Nil,
    err |-> NoErr, file |-> [k |-> "none"], oldCfg |-> defaultConfig, prevWriter |-> Nil ]

Tuple(c, g, t, w) == [cfg |-> c, gl |-> g, tl |-> t, kw |-> w]

\* healthLoop before its first tick: prevTotal, prevSuccess, prevErrors hold the
\* snapshot taken at the start, period is the ticker's; dTotal, dSucc and dErr
\* keep the last tick's deltas until the next tick
StartHealthLoop(c) ==
  [ pc |-> "wait", period |-> c.HealthEvalPeriod,
    prevTotal |-> 0, prevSuccess |-> 0, prevErrors |-> 0,
    totalNow |-> 0, succNow |-> 0, errNow |-> 0,
    dTotal |-> 0, dSucc |-> 0, dErr |-> 0,
    cfg |-> defaultConfig ]

\* a started server: Start has run its probe (probe is "off" when it was
\* disabled and not run, else "ok" or the step that failed), launched
\* healthLoop and listens; Stop has not been called
Serving(probe) ==
  [ phase |-> "serving", probe |-> probe, probeWrites |-> 0, listening |-> TRUE,
    stopHealth |-> "open", stop |-> "idle", stopErr |-> NoErr ]

\* server.New has returned and Start has not been called
NotStarted == [Serving("off") EXCEPT !.phase = "new", !.listening = FALSE]

\* no request to /ready or /configz has been answered; healthUp is history:
\* the health_up gauge at the moment /ready was answered
NoView == [k |-> "none"]
NoAnswers ==
  [ ready |-> 0, readyText |-> "", healthUp |-> 1, configz |-> NoView, cfg |-> defaultConfig ]

\* ------------------------------------------------------------ construction
\* metrics.NewRegistry: the label names the collectors are registered with;
\* the enableTenant field of the Registry is left at its zero value
NewRegistry(enableTenant, slaGaugeEnable) ==
  [ enableTenant |-> FALSE,
    reqLabels |-> IF enableTenant THEN 4 ELSE 3,
    reqBytesLabels |-> IF enableTenant THEN 2 ELSE 1,
    slaRegistered |-> slaGaugeEnable,
    slaSuccessRatio |-> 0,
    requestsTotal |-> 0,
    rateLimitedGlobal |-> 0,
    rateLimitedTenant |-> 0,
    kafkaWriteErrors |-> 0,
    durationObs |-> 0,
    healthUp |-> 1,
    kafkaConsecutiveErrors |-> 0,
    totalAll |-> 0, totalSuccess |-> 0, totalError |-> 0 ]

\* the number of label values MakeRequestLabels / MakeRequestBytesLabels return
MakeRequestLabels(m) == IF m.enableTenant THEN 4 ELSE 3
MakeRequestBytesLabels(m) == IF m.enableTenant THEN 2 ELSE 1

\* buildRateLimitersLocked, as the limiter objects it builds for configuration
\* c: a sequence holding the new object, empty when the pointer is set to nil
BuildGlobal(c) ==
  IF c.RateLimitEnabled /\ c.RateLimitGlobalRPS > 0
  THEN << newTokenLimiter(c.RateLimitGlobalRPS,
                          DeriveBurst(c.RateLimitGlobalRPS, c.RateLimitGlobalBurst)) >>
  ELSE << >>

BuildTenant(c) ==
  IF c.RateLimitEnabled /\ c.RateLimitPerTenantRPS > 0
  THEN << newPerTenantLimiter(c.RateLimitPerTenantRPS,
                              DeriveBurst(c.RateLimitPerTenantRPS, c.RateLimitPerTenantBurst)) >>
  ELSE << >>

\* main and server.New: the process exits when the file does not load or the
\* writer cannot be built, so a running server started from a file that does both
InitWorld(w) ==
  \E f \in StartFilesOf(w) :
    LET ld == LoadFromFile(f)
        c == ld.cfg
        nw == NewWriter(WriterConfigOf(c))
    IN
    /\ ld.err = NoErr
    /\ nw.err = NoErr
    /\ world = w
    /\ cfg = c
    /\ writers = << nw.w >>
    /\ kWriter = 1
    /\ gLims = BuildGlobal(c)
    /\ tLims = BuildTenant(c)
    /\ globalLimiter = IF BuildGlobal(c) = << >> THEN Nil ELSE 1
    /\ tenantLimiters = IF BuildTenant(c) = << >> THEN Nil ELSE 1
    /\ mu = [writer |-> NoHolder, readers |-> 0]
    /\ reloadMu = NoHolder
    /\ metrics = NewRegistry(c.MetricsEnableTenantLabel, c.SLAGaugeEnable)
    /\ consecutiveErrors = 0
    /\ hs = [h \in Handlers |-> IdleHandler]
    /\ rl = [r \in Reloaders |-> IdleReloader]
    /\ nreq = 0
    /\ nreload = 0
    /\ hl = IF w = "start" THEN [StartHealthLoop(c) EXCEPT !.pc = "off"]
            ELSE StartHealthLoop(c)
    /\ adm = NoAnswers
    /\ crashed = FALSE
    /\ life = IF w = "start" THEN NotStarted
              ELSE Serving(IF c.KafkaProbeEnabled THEN "ok" ELSE "off")
    /\ published = { Tuple(c, IF BuildGlobal(c) = << >> THEN Nil ELSE 1,
                           IF BuildTenant(c) = << >> THEN Nil ELSE 1, 1) }

\* -------------------------------------------------------------- push handler
\* WithLabelValues panics when the number of values differs from the number of
\* label names the collector was registered with
RequestsTotalPanics(m) == MakeRequestLabels(m) # m.reqLabels
RequestBytesPanics(m) == MakeRequestBytesLabels(m) # m.reqBytesLabels

\* http.Error / WriteHeader, rr.result, then RequestsTotal...Inc(): the handler
\* record and the registry after them (a panic unwinds through wrapRequest)
RespondH(rec, m, status, text, result, isSuccess, isError) ==
  IF RequestsTotalPanics(m)
  THEN [rec EXCEPT !.status = status, !.text = text, !.result = result, !.pc = "panicked"]
  ELSE [rec EXCEPT !.status = status, !.text = text, !.result = result,
                   !.reqInc = @ + 1, !.isSuccess = isSuccess, !.isError = isError,
                   !.pc = "track_total"]

RespondM(m) ==
  IF RequestsTotalPanics(m) THEN m ELSE [m EXCEPT !.requestsTotal = @ + 1]

\* s.mu.RLock() is granted while no writer holds the lock
CanRLockUnlocked == TRUE

CanRLock == mu.writer = NoHolder

\* a request arrives at a push endpoint: wrapRequest calls handlePush, which
\* takes the read lock
Arrive(h) ==
  /\ hs[h].pc = "idle"
  /\ life.listening
  /\ \A e \in EarlierHandlers(h) : hs[e].pc # "idle"
  /\ nreq < RequestBudget(world)
  /\ CanRLock
  /\ mu' = [mu EXCEPT !.readers = @ + 1]
  /\ \E m \in MethodsOf(world) :
       hs' = [hs EXCEPT ![h] = [@ EXCEPT !.method = m, !.pc = "snapshot"]]
  /\ nreq' = nreq + 1
  /\ UNCHANGED << world, life, cfg, kWriter, writers, globalLimiter, tenantLimiters, gLims,
                  tLims, reloadMu, metrics, consecutiveErrors, rl, nreload, published,
                  hl, adm, crashed >>

SnapshotKeepingLock(h) ==
  /\ hs[h].pc = "snapshot"
  /\ hs' = [hs EXCEPT ![h] = [@ EXCEPT !.cfg = cfg, !.gl = globalLimiter,
                                       !.tl = tenantLimiters, !.kw = kWriter,
                                       !.pc = "tenant"]]
  /\ UNCHANGED << world, life, cfg, kWriter, writers, globalLimiter, tenantLimiters, gLims,
                  tLims, mu, reloadMu, metrics, consecutiveErrors, rl, nreq, nreload,
                  published, hl, adm, crashed >>

\* the four pointer copies and s.mu.RUnlock()
Snapshot(h) ==
  /\ hs[h].pc = "snapshot"
  /\ hs' = [hs EXCEPT ![h] = [@ EXCEPT !.cfg = cfg, !.gl = globalLimiter,
                                       !.tl = tenantLimiters, !.kw = kWriter,
                                       !.pc = "tenant"]]
  /\ mu' = [mu EXCEPT !.readers = @ - 1]
  /\ UNCHANGED << world, life, cfg, kWriter, writers, globalLimiter, tenantLimiters, gLims,
                  tLims, reloadMu, metrics, consecutiveErrors, rl, nreq, nreload,
                  published, hl, adm, crashed >>

AfterStageSkippingGlobal(rec, stage) ==
  IF ~rec.cfg.RateLimitEnabled THEN "read"
  ELSE IF stage \in {"tenant_check", "global"} /\ rec.tl # Nil THEN "ratelimit_tenant"
  ELSE "read"

\* where an admitted request goes next: the limiter stages that are configured
\* ("global", then "tenant"), then the body read
AfterStage(rec, stage) ==
  IF ~rec.cfg.RateLimitEnabled THEN "read"
  ELSE IF stage = "tenant_check" /\ rec.gl # Nil THEN "ratelimit_global"
  ELSE IF stage \in {"tenant_check", "global"} /\ rec.tl # Nil THEN "ratelimit_tenant"
  ELSE "read"

TenantCheck(h) ==
  /\ hs[h].pc = "tenant"
  /\ \E hdr \in TenantHeadersOf(world) :
       LET rec == [hs[h] EXCEPT !.hdr = hdr] IN
       IF hdr = "" /\ ~rec.cfg.AllowEmptyTenant
       THEN /\ hs' = [hs EXCEPT ![h] = RespondH(rec, metrics, 400, "Missing X-Scope-OrgID",
                                                "missing_tenant", FALSE, TRUE)]
            /\ metrics' = RespondM(metrics)
       ELSE /\ hs' = [hs EXCEPT ![h] =
                        [rec EXCEPT !.tenant = IF hdr = "" THEN rec.cfg.DefaultTenant ELSE hdr,
                                    !.pc = AfterStage(rec, "tenant_check")]]
            /\ UNCHANGED metrics
  /\ UNCHANGED << world, life, cfg, kWriter, writers, globalLimiter, tenantLimiters, gLims,
                  tLims, mu, reloadMu, consecutiveErrors, rl, nreq, nreload, published,
                  hl, adm, crashed >>

\* globalLimiter.lim.Allow()
GlobalLimit(h) ==
  /\ hs[h].pc = "ratelimit_global"
  /\ IF gLims[hs[h].gl].tokens > 0
     THEN /\ gLims' = [gLims EXCEPT ![hs[h].gl].tokens = @ - 1]
          /\ hs' = [hs EXCEPT ![h].pc = AfterStage(hs[h], "global")]
          /\ UNCHANGED metrics
     ELSE /\ hs' = [hs EXCEPT ![h] =
                      RespondH(@, metrics, 429, "rate limited (global)",
                               "rate_limited", FALSE, TRUE)]
          /\ metrics' = RespondM([metrics EXCEPT !.rateLimitedGlobal = @ + 1])
          /\ UNCHANGED gLims
  /\ UNCHANGED << world, life, cfg, kWriter, writers, globalLimiter, tenantLimiters, tLims, mu,
                  reloadMu, consecutiveErrors, rl, nreq, nreload, published, hl, adm, crashed >>

getAlwaysFresh(p, tenant) ==
  [p EXCEPT !.limiters = (tenant :> newTokenLimiter(p.rps, p.burst)) @@ @]

\* perTenantLimiter.get: the tenant's bucket, created full when absent
get(p, tenant) ==
  IF tenant \in DOMAIN p.limiters
  THEN p
  ELSE [p EXCEPT !.limiters = (tenant :> newTokenLimiter(p.rps, p.burst)) @@ @]

\* tenantLimiters.get(tenant) and lim.Allow()
TenantLimit(h) ==
  /\ hs[h].pc = "ratelimit_tenant"
  /\ LET p == get(tLims[hs[h].tl], hs[h].tenant)
         lim == p.limiters[hs[h].tenant]
     IN IF lim.tokens > 0
        THEN /\ tLims' = [tLims EXCEPT ![hs[h].tl] =
                            [p EXCEPT !.limiters[hs[h].tenant].tokens = @ - 1]]
             /\ hs' = [hs EXCEPT ![h].pc = "read"]
             /\ UNCHANGED metrics
        ELSE /\ tLims' = [tLims EXCEPT ![hs[h].tl] = p]
             /\ hs' = [hs EXCEPT ![h] =
                         RespondH(@, metrics, 429, "rate limited (tenant)",
                                  "rate_limited", FALSE, TRUE)]
             /\ metrics' = RespondM([metrics EXCEPT !.rateLimitedTenant = @ + 1])
  /\ UNCHANGED << world, life, cfg, kWriter, writers, globalLimiter, tenantLimiters, gLims, mu,
                  reloadMu, consecutiveErrors, rl, nreq, nreload, published, hl, adm, crashed >>

\* io.ReadAll(http.MaxBytesReader(w, r.Body, limit)) on a stream that carries
\* body and breaks at errAt
ReadAllLimited(body, errAt, limit) ==
  LET delivered == IF errAt = << >> \/ errAt[1] > Len(body) THEN Len(body) ELSE errAt[1]
  IN  IF delivered > limit
      THEN [err |-> "http: request body too large", body |-> SubSeq(body, 1, limit)]
      ELSE IF errAt # << >> /\ errAt[1] <= Len(body)
           THEN [err |-> "unexpected EOF", body |-> SubSeq(body, 1, delivered)]
           ELSE [err |-> NoErr, body |-> body]

\* the read error's result label
ReadErrorResult(err) ==
  IF err = "http: request body too large" THEN "too_large" ELSE "bad_request"

\* the body read and, when it succeeds, RequestBytesTotal.WithLabelValues(...)
ReadBody(h) ==
  /\ hs[h].pc = "read"
  /\ \E ct \in ContentTypesOf(world), ce \in ContentEncodingsOf(world),
        b \in BodiesOf(world), errAt \in ReadErrAtsOf(world) :
       LET rd == ReadAllLimited(b, errAt, hs[h].cfg.MaxBodyBytes)
           res == ReadErrorResult(rd.err)
           rec == [hs[h] EXCEPT !.ctRaw = ct, !.ce = ce, !.sent = b]
       IN IF rd.err # NoErr
          THEN /\ hs' = [hs EXCEPT ![h] = RespondH(rec, metrics, 400, res, res, FALSE, TRUE)]
               /\ metrics' = RespondM(metrics)
          ELSE /\ hs' = [hs EXCEPT ![h] =
                           [rec EXCEPT !.body = rd.body,
                                       !.pc = IF RequestBytesPanics(metrics)
                                              THEN "panicked" ELSE "write"]]
               /\ UNCHANGED metrics
  /\ UNCHANGED << world, life, cfg, kWriter, writers, globalLimiter, tenantLimiters, gLims,
                  tLims, mu, reloadMu, consecutiveErrors, rl, nreq, nreload, published,
                  hl, adm, crashed >>

\* the kafkago.Message handlePush builds; Key is << >> when unset
MessageKeyFromServer(c, tenant) == IF cfg.KafkaBalancer = "hash" THEN <<tenant>> ELSE << >>

MessageKey(c, tenant) == IF c.KafkaBalancer = "hash" THEN <<tenant>> ELSE << >>

BuildMessageAlwaysContentType(rec) ==
  [ Value |-> rec.body,
    Headers |-> << <<"X-Scope-OrgID", rec.tenant>>, <<"Content-Type", rec.ctRaw>> >>
                \o (IF rec.ce # "" THEN << <<"Content-Encoding", rec.ce>> >> ELSE << >>),
    Key |-> MessageKey(rec.cfg, rec.tenant) ]

BuildMessage(rec) ==
  [ Value |-> rec.body,
    Headers |-> << <<"X-Scope-OrgID", rec.tenant>> >>
                \o (IF rec.ctRaw # "" THEN << <<"Content-Type", rec.ctRaw>> >> ELSE << >>)
                \o (IF rec.ce # "" THEN << <<"Content-Encoding", rec.ce>> >> ELSE << >>),
    Key |-> MessageKey(rec.cfg, rec.tenant) ]

\* classifyKafkaError: the error_type label of a producer error
classifyKafkaError(err) ==
  IF err.deadline THEN "timeout"
  ELSE IF err.net # "no"
       THEN (IF err.net = "timeout" THEN "timeout" ELSE "network")
       ELSE LET msg == ToLower(err.text) IN
            CASE Contains(msg, "not leader") -> "not_leader"
              [] Contains(msg, "unknown topic") -> "unknown_topic"
              [] Contains(msg, "message too large") -> "too_large"
              [] Contains(msg, "connection refused") -> "conn_refused"
              [] Contains(msg, "connection reset") \/ Contains(msg, "broken pipe") -> "conn_reset"
              [] Contains(msg, "timeout") -> "timeout"
              [] OTHER -> "other"

\* errType := classifyKafkaError(err); KafkaWriteErrorsTotal.WithLabelValues(errType)
Classified(rec, err) == [rec EXCEPT !.kerrv = err, !.errType = classifyKafkaError(err)]

\* err != nil after the write: error metrics, 503, rr.result, RequestsTotal
KafkaFailedHRetry(rec, m, err) == [rec EXCEPT !.kerr = err, !.pc = "write"]

KafkaFailedH(rec, m, err) ==
  RespondH([rec EXCEPT !.kerr = err], m, 503, "kafka write failed", "kafka_error",
           FALSE, TRUE)

KafkaFailedM(m) == RespondM([m EXCEPT !.kafkaWriteErrors = @ + 1])

\* kWriter.Write(writeCtx, msg) is entered: a closed kafka-go writer refuses
\* the message with io.ErrClosedPipe, an open one takes it in flight
WriteBegin(h) ==
  /\ hs[h].pc = "write"
  /\ LET rec == [hs[h] EXCEPT !.msgs = Append(@, BuildMessage(hs[h]))] IN
     IF writers[hs[h].kw].closed
     THEN /\ hs' = [hs EXCEPT ![h] =
                      KafkaFailedH(Classified(rec, ClosedPipeError), metrics, ErrClosedPipe)]
          /\ metrics' = KafkaFailedM(metrics)
          /\ UNCHANGED writers
     ELSE /\ hs' = [hs EXCEPT ![h] = [rec EXCEPT !.pc = "writing"]]
          /\ writers' = [writers EXCEPT ![hs[h].kw].inflight = @ + 1]
          /\ UNCHANGED metrics
  /\ UNCHANGED << world, life, cfg, kWriter, globalLimiter, tenantLimiters, gLims, tLims, mu,
                  reloadMu, consecutiveErrors, rl, nreq, nreload, published, hl, adm, crashed >>

\* the write returns an error from the broker or the transport
WriteFails(h) ==
  /\ hs[h].pc = "writing"
  /\ \E err \in WriteErrorsOf(world) :
       hs' = [hs EXCEPT ![h] = KafkaFailedH(Classified(@, err), metrics, err.text)]
  /\ metrics' = KafkaFailedM(metrics)
  /\ writers' = [writers EXCEPT ![hs[h].kw].inflight = @ - 1]
  /\ UNCHANGED << world, life, cfg, kWriter, globalLimiter, tenantLimiters, gLims, tLims, mu,
                  reloadMu, consecutiveErrors, rl, nreq, nreload, published, hl, adm, crashed >>

\* the write is acknowledged: s.consecutiveErrors = 0
WriteSucceedsKeepsStreak(h) ==
  /\ hs[h].pc = "writing"
  /\ writers' = [writers EXCEPT ![hs[h].kw].inflight = @ - 1]
  /\ hs' = [hs EXCEPT ![h].pc = "gauge_zero"]
  /\ UNCHANGED << world, life, cfg, kWriter, globalLimiter, tenantLimiters, gLims, tLims, mu,
                  reloadMu, metrics, consecutiveErrors, rl, nreq, nreload, published,
                  hl, adm, crashed >>

WriteSucceeds(h) ==
  /\ hs[h].pc = "writing"
  /\ writers' = [writers EXCEPT ![hs[h].kw].inflight = @ - 1]
  /\ consecutiveErrors' = 0
  /\ hs' = [hs EXCEPT ![h].pc = "gauge_zero"]
  /\ UNCHANGED << world, life, cfg, kWriter, globalLimiter, tenantLimiters, gLims, tLims, mu,
                  reloadMu, metrics, rl, nreq, nreload, published, hl, adm, crashed >>

\* KafkaConsecutiveErrors.Set(0), w.WriteHeader(204), rr.result, RequestsTotal
RespondOK(h) ==
  /\ hs[h].pc = "gauge_zero"
  /\ LET m == [metrics EXCEPT !.kafkaConsecutiveErrors = 0] IN
     /\ hs' = [hs EXCEPT ![h] = RespondH(@, m, 204, "", "success", TRUE, FALSE)]
     /\ metrics' = RespondM(m)
  /\ UNCHANGED << world, life, cfg, kWriter, writers, globalLimiter, tenantLimiters, gLims,
                  tLims, mu, reloadMu, consecutiveErrors, rl, nreq, nreload, published,
                  hl, adm, crashed >>

\* Registry.TrackResult, first statement: r.totalAll.Add(1)
TrackTotal(h) ==
  /\ hs[h].pc = "track_total"
  /\ metrics' = [metrics EXCEPT !.totalAll = @ + 1]
  /\ hs' = [hs EXCEPT ![h] = [@ EXCEPT !.dTotal = @ + 1, !.pc = "track_result"]]
  /\ UNCHANGED << world, life, cfg, kWriter, writers, globalLimiter, tenantLimiters, gLims,
                  tLims, mu, reloadMu, consecutiveErrors, rl, nreq, nreload, published,
                  hl, adm, crashed >>

\* what TrackResult adds to totalSuccess and totalError
TrackAddsSuccessOnly(isSuccess, isError) ==
  [success |-> IF isSuccess THEN 1 ELSE 0, errors |-> 0]

TrackAdds(isSuccess, isError) ==
  [success |-> IF isSuccess THEN 1 ELSE 0, errors |-> IF isError THEN 1 ELSE 0]

\* Registry.TrackResult, the rest: totalSuccess / totalError
TrackResult(h) ==
  /\ hs[h].pc = "track_result"
  /\ LET a == TrackAdds(hs[h].isSuccess, hs[h].isError) IN
     /\ metrics' = [metrics EXCEPT !.totalSuccess = @ + a.success,
                                   !.totalError = @ + a.errors]
     /\ hs' = [hs EXCEPT ![h] =
                 [@ EXCEPT !.dSuccess = @ + a.success, !.dErrors = @ + a.errors,
                           !.pc = IF hs[h].result = "kafka_error" THEN "k_load"
                                  ELSE "observe"]]
  /\ UNCHANGED << world, life, cfg, kWriter, writers, globalLimiter, tenantLimiters, gLims,
                  tLims, mu, reloadMu, consecutiveErrors, rl, nreq, nreload, published,
                  hl, adm, crashed >>

\* s.consecutiveErrors++ is an unsynchronised read, then a write
StreakLoad(h) ==
  /\ hs[h].pc = "k_load"
  /\ hs' = [hs EXCEPT ![h] = [@ EXCEPT !.ktmp = consecutiveErrors, !.pc = "k_store"]]
  /\ UNCHANGED << world, life, cfg, kWriter, writers, globalLimiter, tenantLimiters, gLims,
                  tLims, mu, reloadMu, metrics, consecutiveErrors, rl, nreq, nreload,
                  published, hl, adm, crashed >>

StreakStore(h) ==
  /\ hs[h].pc = "k_store"
  /\ consecutiveErrors' = hs[h].ktmp + 1
  /\ hs' = [hs EXCEPT ![h] = [@ EXCEPT !.ktmp = 0, !.pc = "k_gauge"]]
  /\ UNCHANGED << world, life, cfg, kWriter, writers, globalLimiter, tenantLimiters, gLims,
                  tLims, mu, reloadMu, metrics, rl, nreq, nreload, published, hl, adm, crashed >>

\* s.metrics.KafkaConsecutiveErrors.Set(float64(s.consecutiveErrors))
StreakGauge(h) ==
  /\ hs[h].pc = "k_gauge"
  /\ metrics' = [metrics EXCEPT !.kafkaConsecutiveErrors = consecutiveErrors]
  /\ hs' = [hs EXCEPT ![h].pc = "observe"]
  /\ UNCHANGED << world, life, cfg, kWriter, writers, globalLimiter, tenantLimiters, gLims,
                  tLims, mu, reloadMu, consecutiveErrors, rl, nreq, nreload, published,
                  hl, adm, crashed >>

\* wrapRequest's result label: rr.result, or derived from the status
ResultLabel(result, status) ==
  IF result # "" THEN result
  ELSE CASE status >= 500 -> "error"
         [] status >= 400 -> "client_error"
         [] status = 0 \/ (status >= 200 /\ status < 300) -> "success"
         [] OTHER -> "other"

\* handlePush has returned to wrapRequest: RequestDurationHist...Observe
Observe(h) ==
  /\ hs[h].pc = "observe"
  /\ metrics' = [metrics EXCEPT !.durationObs = @ + 1]
  /\ hs' = [hs EXCEPT ![h] = [@ EXCEPT !.obs = @ + 1,
                                       !.obsLabel = ResultLabel(hs[h].result, hs[h].status),
                                       !.pc = "done"]]
  /\ UNCHANGED << world, life, cfg, kWriter, writers, globalLimiter, tenantLimiters, gLims,
                  tLims, mu, reloadMu, consecutiveErrors, rl, nreq, nreload, published,
                  hl, adm, crashed >>

\* the request's goroutine ends (after a panic: recovered by net/http)
Finish(h) ==
  /\ hs[h].pc \in {"done", "panicked"}
  /\ hs' = [hs EXCEPT ![h] = IdleHandler]
  /\ UNCHANGED << world, life, cfg, kWriter, writers, globalLimiter, tenantLimiters, gLims,
                  tLims, mu, reloadMu, metrics, consecutiveErrors, rl, nreq, nreload,
                  published, hl, adm, crashed >>

\* time passes: every token bucket gains a token, up to its burst
RefillBucket(b) == IF b.tokens < b.burst THEN [b EXCEPT !.tokens = @ + 1] ELSE b

TimePasses ==
  /\ \/ \E i \in DOMAIN gLims : gLims[i].tokens < gLims[i].burst
     \/ \E i \in DOMAIN tLims : \E t \in DOMAIN tLims[i].limiters :
          tLims[i].limiters[t].tokens < tLims[i].limiters[t].burst
  /\ gLims' = [i \in DOMAIN gLims |-> RefillBucket(gLims[i])]
  /\ tLims' = [i \in DOMAIN tLims |->
                 [tLims[i] EXCEPT !.limiters =
                    [t \in DOMAIN tLims[i].limiters |-> RefillBucket(tLims[i].limiters[t])]]]
  /\ UNCHANGED << world, life, cfg, kWriter, writers, globalLimiter, tenantLimiters, mu,
                  reloadMu, metrics, consecutiveErrors, hs, rl, nreq, nreload, published,
                  hl, adm, crashed >>

\* ------------------------------------------------------------------- reload
\* if err != nil { return err }: the caller after LoadFromFile
AfterLoadIgnoringError(rec, ld) == [rec EXCEPT !.pc = "lock", !.newCfg = ld.cfg]

AfterLoad(rec, ld) ==
  IF ld.err # NoErr
  THEN [rec EXCEPT !.pc = "return", !.err = ld.err]
  ELSE [rec EXCEPT !.pc = "lock", !.newCfg = ld.cfg]

CanLockReloadAlways == TRUE

\* config.ReloadMutex.Lock() is granted when no caller of Reload holds it
CanLockReload == reloadMu = NoHolder

\* who can call Reload: reloadHandler while the server accepts requests,
\* main's signal loop on SIGHUP while it is not inside Stop
CanCallReload(r) ==
  IF r = "http" THEN life.listening ELSE life.stop = "idle"

\* Reload is called (POST /reload or SIGHUP), takes config.ReloadMutex and
\* reads the file: config.LoadFromFile(s.cfgFile); on error Reload returns it
ReloadBegin(r) ==
  /\ rl[r].pc = "idle"
  /\ nreload < ReloadBudget(world)
  /\ CanCallReload(r)
  /\ CanLockReload
  /\ reloadMu' = r
  /\ \E f \in ReloadFilesOf(world) :
       rl' = [rl EXCEPT ![r] = AfterLoad([@ EXCEPT !.file = f], LoadFromFile(f))]
  /\ nreload' = nreload + 1
  /\ UNCHANGED << world, life, cfg, kWriter, writers, globalLimiter, tenantLimiters, gLims,
                  tLims, mu, metrics, consecutiveErrors, hs, nreq, published, hl, adm, crashed >>

\* s.mu.Lock() is granted when no reader and no writer holds the lock
CanLock == mu.writer = NoHolder /\ mu.readers = 0

RebuildWriterOnAnyChange(old, new) == old # new

\* rebuildWriter := config.ImmutableChanged(oldImmutable, newImmutable)
RebuildWriter(old, new) == ImmutableChanged(ImmutableSubset(old), ImmutableSubset(new))

\* if err != nil { return fmt.Errorf("rebuild writer: %w", err) }
OnBuildErrorContinue(rec) == [rec EXCEPT !.pc = "publish"]

OnBuildError(rec) == [rec EXCEPT !.pc = "return", !.err = "rebuild writer"]

\* s.mu.Lock(), the comparison and, on a change, kafka.NewWriter(newCfg...);
\* a construction error makes Reload return it
ReloadLock(r) ==
  /\ rl[r].pc = "lock"
  /\ CanLock
  /\ mu' = [mu EXCEPT !.writer = r]
  /\ LET rec == [rl[r] EXCEPT !.oldCfg = cfg, !.prevWriter = kWriter] IN
     IF RebuildWriter(cfg, rl[r].newCfg)
     THEN LET nw == NewWriter(WriterConfigOf(rl[r].newCfg)) IN
          IF nw.err # NoErr
          THEN /\ rl' = [rl EXCEPT ![r] = OnBuildError(rec)]
               /\ UNCHANGED writers
          ELSE /\ writers' = Append(writers, nw.w)
               /\ rl' = [rl EXCEPT ![r] = [rec EXCEPT !.pc = "swap",
                                                      !.newWriter = Len(writers) + 1]]
     ELSE /\ rl' = [rl EXCEPT ![r] = [rec EXCEPT !.pc = "publish"]]
          /\ UNCHANGED writers
  /\ UNCHANGED << world, life, cfg, kWriter, globalLimiter, tenantLimiters, gLims, tLims,
                  reloadMu, metrics, consecutiveErrors, hs, nreq, nreload, published,
                  hl, adm, crashed >>

ReloadSwapClosingNew(r) ==
  /\ rl[r].pc = "swap"
  /\ kWriter' = rl[r].newWriter
  /\ rl' = [rl EXCEPT ![r] = [@ EXCEPT !.oldWriter = rl[r].newWriter, !.pc = "close"]]
  /\ UNCHANGED << world, life, cfg, writers, globalLimiter, tenantLimiters, gLims, tLims, mu,
                  reloadMu, metrics, consecutiveErrors, hs, nreq, nreload, published,
                  hl, adm, crashed >>

ReloadSwapResettingStreak(r) ==
  /\ rl[r].pc = "swap"
  /\ kWriter' = rl[r].newWriter
  /\ consecutiveErrors' = 0
  /\ rl' = [rl EXCEPT ![r] = [@ EXCEPT !.oldWriter = kWriter, !.pc = "close"]]
  /\ UNCHANGED << world, life, cfg, writers, globalLimiter, tenantLimiters, gLims, tLims, mu,
                  reloadMu, metrics, hs, nreq, nreload, published, hl, adm, crashed >>

\* oldWriter := s.kWriter; s.kWriter = newWriter
ReloadSwap(r) ==
  /\ rl[r].pc = "swap"
  /\ kWriter' = rl[r].newWriter
  /\ rl' = [rl EXCEPT ![r] = [@ EXCEPT !.oldWriter = kWriter, !.pc = "close"]]
  /\ UNCHANGED << world, life, cfg, writers, globalLimiter, tenantLimiters, gLims, tLims, mu,
                  reloadMu, metrics, consecutiveErrors, hs, nreq, nreload, published,
                  hl, adm, crashed >>

\* Writer.Close: the kafka-go writer is marked closed; closes is history, the
\* number of Close calls on it
Closed(w) == [w EXCEPT !.closed = TRUE, !.closes = @ + 1]

\* oldWriter.Close() marks the kafka-go writer closed ...
ReloadCloseBegin(r) ==
  /\ rl[r].pc = "close"
  /\ writers' = [writers EXCEPT ![rl[r].oldWriter] = Closed(@)]
  /\ rl' = [rl EXCEPT ![r].pc = "close_wait"]
  /\ UNCHANGED << world, life, cfg, kWriter, globalLimiter, tenantLimiters, gLims, tLims, mu,
                  reloadMu, metrics, consecutiveErrors, hs, nreq, nreload, published,
                  hl, adm, crashed >>

\* ... and returns once the writes in flight on it have returned
ReloadCloseEnd(r) ==
  /\ rl[r].pc = "close_wait"
  /\ writers[rl[r].oldWriter].inflight = 0
  /\ rl' = [rl EXCEPT ![r].pc = "publish"]
  /\ UNCHANGED << world, life, cfg, kWriter, writers, globalLimiter, tenantLimiters, gLims,
                  tLims, mu, reloadMu, metrics, consecutiveErrors, hs, nreq, nreload,
                  published, hl, adm, crashed >>

\* s.cfg = newCfg
ReloadPublish(r) ==
  /\ rl[r].pc = "publish"
  /\ cfg' = rl[r].newCfg
  /\ rl' = [rl EXCEPT ![r].pc = "limiters"]
  /\ UNCHANGED << world, life, kWriter, writers, globalLimiter, tenantLimiters, gLims, tLims,
                  mu, reloadMu, metrics, consecutiveErrors, hs, nreq, nreload, published,
                  hl, adm, crashed >>

buildRateLimitersLockedKeeping ==
  UNCHANGED << gLims, tLims, globalLimiter, tenantLimiters >>

\* s.buildRateLimitersLocked(): fresh objects for s.cfg
buildRateLimitersLocked ==
  /\ gLims' = gLims \o BuildGlobal(cfg)
  /\ tLims' = tLims \o BuildTenant(cfg)
  /\ globalLimiter' = IF BuildGlobal(cfg) = << >> THEN Nil ELSE Len(gLims) + 1
  /\ tenantLimiters' = IF BuildTenant(cfg) = << >> THEN Nil ELSE Len(tLims) + 1

ReloadBuildLimiters(r) ==
  /\ rl[r].pc = "limiters"
  /\ buildRateLimitersLocked
  /\ rl' = [rl EXCEPT ![r].pc = "return"]
  /\ UNCHANGED << world, life, cfg, kWriter, writers, mu, reloadMu, metrics, consecutiveErrors,
                  hs, nreq, nreload, published, hl, adm, crashed >>

ReloadReturnKeepingLock(r) ==
  /\ rl[r].pc = "return"
  /\ reloadMu' = NoHolder
  /\ rl' = [rl EXCEPT ![r] = IdleReloader]
  /\ published' = published \cup {Tuple(cfg, globalLimiter, tenantLimiters, kWriter)}
  /\ UNCHANGED << world, life, cfg, kWriter, writers, globalLimiter, tenantLimiters, gLims,
                  tLims, mu, metrics, consecutiveErrors, hs, nreq, nreload, hl, adm, crashed >>

\* Reload returns: the deferred s.mu.Unlock() (when taken) and
\* ReloadMutex.Unlock() run
ReloadReturn(r) ==
  /\ rl[r].pc = "return"
  /\ mu' = IF mu.writer = r THEN [mu EXCEPT !.writer = NoHolder] ELSE mu
  /\ reloadMu' = NoHolder
  /\ rl' = [rl EXCEPT ![r] = IdleReloader]
  /\ published' = published \cup {Tuple(cfg, globalLimiter, tenantLimiters, kWriter)}
  /\ UNCHANGED << world, life, cfg, kWriter, writers, globalLimiter, tenantLimiters, gLims,
                  tLims, metrics, consecutiveErrors, hs, nreq, nreload, hl, adm, crashed >>

\* ------------------------------------------------------------- health loop
\* Registry.Snapshot is three atomic loads, one after another; the tick's
\* first load is r.totalAll.Load()
TickLoadTotal ==
  /\ hl.pc = "wait"
  /\ hl' = [hl EXCEPT !.totalNow = metrics.totalAll, !.pc = "load_success"]
  /\ UNCHANGED << world, life, cfg, kWriter, writers, globalLimiter, tenantLimiters, gLims,
                  tLims, mu, reloadMu, metrics, consecutiveErrors, hs, rl, nreq, nreload,
                  published, adm, crashed >>

\* r.totalSuccess.Load()
TickLoadSuccess ==
  /\ hl.pc = "load_success"
  /\ hl' = [hl EXCEPT !.succNow = metrics.totalSuccess, !.pc = "load_errors"]
  /\ UNCHANGED << world, life, cfg, kWriter, writers, globalLimiter, tenantLimiters, gLims,
                  tLims, mu, reloadMu, metrics, consecutiveErrors, hs, rl, nreq, nreload,
                  published, adm, crashed >>

\* r.totalError.Load(), then the three deltas against the previous snapshot,
\* which is advanced to this one
TickLoadErrors ==
  /\ hl.pc = "load_errors"
  /\ LET errNow == metrics.totalError IN
     hl' = [hl EXCEPT !.errNow = errNow,
                      !.dTotal = hl.totalNow - hl.prevTotal,
                      !.dSucc = hl.succNow - hl.prevSuccess,
                      !.dErr = errNow - hl.prevErrors,
                      !.prevTotal = hl.totalNow,
                      !.prevSuccess = hl.succNow,
                      !.prevErrors = errNow,
                      !.pc = "cfg"]
  /\ UNCHANGED << world, life, cfg, kWriter, writers, globalLimiter, tenantLimiters, gLims,
                  tLims, mu, reloadMu, metrics, consecutiveErrors, hs, rl, nreq, nreload,
                  published, adm, crashed >>

\* s.mu.RLock(); cfg := s.cfg; s.mu.RUnlock()
TickReadCfg ==
  /\ hl.pc = "cfg"
  /\ CanRLock
  /\ hl' = [hl EXCEPT !.cfg = cfg, !.pc = "eval"]
  /\ UNCHANGED << world, life, cfg, kWriter, writers, globalLimiter, tenantLimiters, gLims,
                  tLims, mu, reloadMu, metrics, consecutiveErrors, hs, rl, nreq, nreload,
                  published, adm, crashed >>

\* errorRate > cfg.HealthErrorRateThreshold, or
\* s.consecutiveErrors >= cfg.HealthConsecutiveErrorThreshold; the threshold
\* is in hundredths, the rate is dErr / dTotal
Unhealthy(dErr, dTotal, k, c) ==
  \/ dErr * 100 > c.HealthErrorRateThreshold * dTotal
  \/ k >= c.HealthConsecutiveErrorThreshold

\* s.metrics.SLASuccessRatio is nil unless NewRegistry was given
\* slaGaugeEnable: Set on it panics in the healthLoop goroutine
SLAGaugePanics(loop, m) == loop.dTotal > 0 /\ loop.cfg.SLAGaugeEnable /\ ~m.slaRegistered

EvaluatedAlways(m, loop, k) ==
  [m EXCEPT !.healthUp = IF Unhealthy(loop.dErr, loop.dTotal, k, loop.cfg) THEN 0 ELSE 1]

\* if dTotal > 0 { ... }: the SLA gauge (in hundredths) and health_up as the
\* tick leaves them
Evaluated(m, loop, k) ==
  IF loop.dTotal > 0
  THEN [m EXCEPT !.slaSuccessRatio = IF loop.cfg.SLAGaugeEnable
                                     THEN (loop.dSucc * 100) \div loop.dTotal ELSE @,
                 !.healthUp = IF Unhealthy(loop.dErr, loop.dTotal, k, loop.cfg)
                              THEN 0 ELSE 1]
  ELSE m

\* the body of the tick after the config was read; a panic in this goroutine
\* is not recovered and ends the process
TickEvaluate ==
  /\ hl.pc = "eval"
  /\ IF SLAGaugePanics(hl, metrics)
     THEN /\ crashed' = TRUE
          /\ hl' = [hl EXCEPT !.pc = "panicked"]
          /\ UNCHANGED metrics
     ELSE /\ metrics' = Evaluated(metrics, hl, consecutiveErrors)
          /\ hl' = [hl EXCEPT !.totalNow = 0, !.succNow = 0, !.errNow = 0,
                               !.cfg = defaultConfig, !.pc = "wait"]
          /\ UNCHANGED crashed
  /\ UNCHANGED << world, life, cfg, kWriter, writers, globalLimiter, tenantLimiters, gLims,
                  tLims, mu, reloadMu, consecutiveErrors, hs, rl, nreq, nreload,
                  published, adm >>

\* ----------------------------------------------------------- admin endpoints
\* isHealthy: return s.metrics != nil
NilRegistry == [k |-> "nil"]
isHealthy == metrics # NilRegistry

\* readyHandler
Ready ==
  /\ adm' = [adm EXCEPT !.ready = IF isHealthy THEN 200 ELSE 503,
                        !.readyText = IF isHealthy THEN "" ELSE "degraded",
                        !.healthUp = metrics.healthUp]
  /\ UNCHANGED << world, life, cfg, kWriter, writers, globalLimiter, tenantLimiters, gLims,
                  tLims, mu, reloadMu, metrics, consecutiveErrors, hs, rl, nreq, nreload,
                  published, hl, crashed >>

\* time.Duration.String for whole seconds
DurationString(d) ==
  CASE d = 5 -> "5s"
    [] d = 10 -> "10s"
    [] d = 30 -> "30s"
    [] d = 60 -> "1m0s"
    [] OTHER -> "0s"

RuntimeViewEchoingAll(c) == c

\* Config.RuntimeView: the fields GET /configz shows
RuntimeView(c) ==
  [ KafkaBrokers |-> c.KafkaBrokers,
    KafkaTopic |-> c.KafkaTopic,
    KafkaRequiredAcks |-> c.KafkaRequiredAcks,
    KafkaBalancer |-> c.KafkaBalancer,
    KafkaWriteTimeout |-> DurationString(c.KafkaWriteTimeout),
    KafkaSASLEnabled |-> c.KafkaSASLEnabled,
    KafkaSASLMechanism |-> c.KafkaSASLMechanism,
    KafkaSASLUsername |-> c.KafkaSASLUsername,
    KafkaTLSEnabled |-> c.KafkaTLSEnabled,
    KafkaTLSInsecureSkipVerify |-> c.KafkaTLSInsecureSkipVerify,
    KafkaTLSCAFile |-> c.KafkaTLSCAFile,
    MaxBodyBytes |-> c.MaxBodyBytes,
    AllowEmptyTenant |-> c.AllowEmptyTenant,
    DefaultTenant |-> c.DefaultTenant,
    MetricsEnableTenantLabel |-> c.MetricsEnableTenantLabel,
    HealthErrorRateThreshold |-> c.HealthErrorRateThreshold,
    HealthConsecutiveErrorThreshold |-> c.HealthConsecutiveErrorThreshold,
    HealthEvalPeriod |-> DurationString(c.HealthEvalPeriod),
    SLAGaugeEnable |-> c.SLAGaugeEnable,
    RateLimitEnabled |-> c.RateLimitEnabled,
    RateLimitGlobalRPS |-> c.RateLimitGlobalRPS,
    RateLimitGlobalBurst |-> c.RateLimitGlobalBurst,
    RateLimitPerTenantRPS |-> c.RateLimitPerTenantRPS,
    RateLimitPerTenantBurst |-> c.RateLimitPerTenantBurst,
    LogLevel |-> c.LogLevel,
    Quiet |-> c.Quiet,
    Port |-> c.Port ]

\* configzHandler: under the read lock, the JSON of s.cfg.RuntimeView(); cfg
\* in the answer record is history, the configuration that was rendered
Configz ==
  /\ CanRLock
  /\ adm' = [adm EXCEPT !.configz = RuntimeView(cfg), !.cfg = cfg]
  /\ UNCHANGED << world, life, cfg, kWriter, writers, globalLimiter, tenantLimiters, gLims,
                  tLims, mu, reloadMu, metrics, consecutiveErrors, hs, rl, nreq, nreload,
                  published, hl, crashed >>

\* ------------------------------------------------------------ start and stop
\* what the broker answers to the startup probe: whether the TCP dial to the
\* first broker and the probe write succeed
ProbeEnvs == [dial : BOOLEAN, write : BOOLEAN]

\* kafkaProbe: the dial, then the probe message when kafka_probe_write is set
kafkaProbe(c, env) ==
  IF ~env.dial THEN [err |-> "dial", writes |-> 0]
  ELSE IF ~c.KafkaProbeWrite THEN [err |-> NoErr, writes |-> 0]
  ELSE IF ~env.write THEN [err |-> "write", writes |-> 1]
  ELSE [err |-> NoErr, writes |-> 1]

ProbeAbortsAlways(c, probeErr) == probeErr # NoErr

\* if probeErr != nil { if s.cfg.KafkaProbeRequired { return ... } }
ProbeAborts(c, probeErr) == probeErr # NoErr /\ c.KafkaProbeRequired

\* Start: the optional probe, then go s.healthLoop() and ListenAndServe; when
\* Start returns the probe's error, main ends the process
Start ==
  /\ life.phase = "new"
  /\ \E env \in ProbeEnvs :
       IF cfg.KafkaProbeEnabled
       THEN LET p == kafkaProbe(cfg, env) IN
            IF ProbeAborts(cfg, p.err)
            THEN /\ life' = [life EXCEPT !.phase = "failed", !.probe = p.err,
                                         !.probeWrites = p.writes]
                 /\ UNCHANGED hl
            ELSE /\ life' = [life EXCEPT !.phase = "serving", !.listening = TRUE,
                                         !.probe = IF p.err = NoErr THEN "ok" ELSE p.err,
                                         !.probeWrites = p.writes]
                 /\ hl' = StartHealthLoop(cfg)
       ELSE /\ life' = [life EXCEPT !.phase = "serving", !.listening = TRUE]
            /\ hl' = StartHealthLoop(cfg)
  /\ UNCHANGED << world, cfg, kWriter, writers, globalLimiter, tenantLimiters, gLims,
                  tLims, mu, reloadMu, metrics, consecutiveErrors, hs, rl, nreq, nreload,
                  published, adm, crashed >>

\* Stop is called (SIGINT or SIGTERM) by main's signal loop, which is not
\* inside a SIGHUP's Reload: close(s.stopHealth)
StopBegin ==
  /\ life.phase = "serving"
  /\ life.stop = "idle"
  /\ rl["sighup"].pc = "idle"
  /\ life' = [life EXCEPT !.stopHealth = "closed", !.stop = "shutdown"]
  /\ UNCHANGED << world, cfg, kWriter, writers, globalLimiter, tenantLimiters, gLims,
                  tLims, mu, reloadMu, metrics, consecutiveErrors, hs, rl, nreq, nreload,
                  published, hl, adm, crashed >>

\* healthLoop's select takes case <-s.stopHealth and returns
HealthLoopStops ==
  /\ hl.pc = "wait"
  /\ life.stopHealth = "closed"
  /\ hl' = [hl EXCEPT !.pc = "stopped"]
  /\ UNCHANGED << world, life, cfg, kWriter, writers, globalLimiter, tenantLimiters, gLims,
                  tLims, mu, reloadMu, metrics, consecutiveErrors, hs, rl, nreq, nreload,
                  published, adm, crashed >>

\* s.httpServer.Shutdown(ctx) closes the listeners first ...
ShutdownBegin ==
  /\ life.stop = "shutdown"
  /\ life' = [life EXCEPT !.listening = FALSE, !.stop = "draining"]
  /\ UNCHANGED << world, cfg, kWriter, writers, globalLimiter, tenantLimiters, gLims,
                  tLims, mu, reloadMu, metrics, consecutiveErrors, hs, rl, nreq, nreload,
                  published, hl, adm, crashed >>

\* the requests still being served: push requests, and a POST /reload
ActiveHandlers == { h \in Handlers : hs[h].pc # "idle" }
ServingRequests == ActiveHandlers # {} \/ rl["http"].pc # "idle"

\* if err := s.httpServer.Shutdown(ctx); err != nil { return err }
AfterShutdown(l, err) ==
  IF err # NoErr
  THEN [l EXCEPT !.stop = "returned", !.stopErr = err]
  ELSE [l EXCEPT !.stop = "lock"]

\* ... and returns nil once no request is being served, or the context's
\* error when its deadline passes first
ShutdownReturns ==
  /\ life.stop = "draining"
  /\ \/ ~ServingRequests /\ life' = AfterShutdown(life, NoErr)
     \/ ServingRequests /\ life' = AfterShutdown(life, "context deadline exceeded")
  /\ UNCHANGED << world, cfg, kWriter, writers, globalLimiter, tenantLimiters, gLims,
                  tLims, mu, reloadMu, metrics, consecutiveErrors, hs, rl, nreq, nreload,
                  published, hl, adm, crashed >>

\* s.mu.Lock()
StopLock ==
  /\ life.stop = "lock"
  /\ CanLock
  /\ mu' = [mu EXCEPT !.writer = "stop"]
  /\ life' = [life EXCEPT !.stop = "close"]
  /\ UNCHANGED << world, cfg, kWriter, writers, globalLimiter, tenantLimiters, gLims,
                  tLims, reloadMu, metrics, consecutiveErrors, hs, rl, nreq, nreload,
                  published, hl, adm, crashed >>

\* return s.kWriter.Close(), once the writes in flight on it have returned,
\* and the deferred s.mu.Unlock()
StopClose ==
  /\ life.stop = "close"
  /\ writers[kWriter].inflight = 0
  /\ writers' = [writers EXCEPT ![kWriter] = Closed(@)]
  /\ mu' = [mu EXCEPT !.writer = NoHolder]
  /\ life' = [life EXCEPT !.stop = "returned"]
  /\ UNCHANGED << world, cfg, kWriter, globalLimiter, tenantLimiters, gLims,
                  tLims, reloadMu, metrics, consecutiveErrors, hs, rl, nreq, nreload,
                  published, hl, adm, crashed >>

\* ---------------------------------------------------------------- behaviour
HandlerStep(h) ==
  \/ Arrive(h)
  \/ Snapshot(h)
  \/ TenantCheck(h)
  \/ GlobalLimit(h)
  \/ TenantLimit(h)
  \/ ReadBody(h)
  \/ WriteBegin(h)
  \/ WriteFails(h)
  \/ WriteSucceeds(h)
  \/ RespondOK(h)
  \/ TrackTotal(h)
  \/ TrackResult(h)
  \/ StreakLoad(h)
  \/ StreakStore(h)
  \/ StreakGauge(h)
  \/ Observe(h)
  \/ Finish(h)

ReloadStep(r) ==
  \/ ReloadBegin(r)
  \/ ReloadLock(r)
  \/ ReloadSwap(r)
  \/ ReloadCloseBegin(r)
  \/ ReloadCloseEnd(r)
  \/ ReloadPublish(r)
  \/ ReloadBuildLimiters(r)
  \/ ReloadReturn(r)

Next ==
  \/ \E h \in Handlers : HandlerStep(h)
  \/ \E r \in Reloaders : ReloadStep(r)
  \/ TimePasses

Init == InitWorld("push") \/ InitWorld("reload")

Spec == Init /\ [][Next]_vars

\* requests served one after another, with every kind of request input and
\* producer error
InitInputs == InitWorld("inputs")

NextInputs == HandlerStep("h1") \/ TimePasses

SpecInputs == InitInputs /\ [][NextInputs]_vars

\* a burst of requests against a global bucket, with no time passing and no
\* per-tenant bucket configured
InitBurst == InitWorld("burst")

BurstStep(h) ==
  \/ Arrive(h)
  \/ Snapshot(h)
  \/ TenantCheck(h)
  \/ GlobalLimit(h)
  \/ ReadBody(h)
  \/ WriteBegin(h)
  \/ WriteFails(h)
  \/ WriteSucceeds(h)
  \/ RespondOK(h)
  \/ TrackTotal(h)
  \/ TrackResult(h)
  \/ StreakLoad(h)
  \/ StreakStore(h)
  \/ StreakGauge(h)
  \/ Observe(h)
  \/ Finish(h)

NextBurst == \E h \in Handlers : BurstStep(h)

SpecBurst == InitBurst /\ [][NextBurst]_vars

\* requests served one after another while the health loop ticks and /ready
\* is asked; nothing runs once the process has ended
InitHealth == InitWorld("health")

NextHealth ==
  \/ ~crashed /\ Arrive("h1")
  \/ ~crashed /\ Snapshot("h1")
  \/ ~crashed /\ TenantCheck("h1")
  \/ ~crashed /\ ReadBody("h1")
  \/ ~crashed /\ WriteBegin("h1")
  \/ ~crashed /\ WriteFails("h1")
  \/ ~crashed /\ WriteSucceeds("h1")
  \/ ~crashed /\ RespondOK("h1")
  \/ ~crashed /\ TrackTotal("h1")
  \/ ~crashed /\ TrackResult("h1")
  \/ ~crashed /\ StreakLoad("h1")
  \/ ~crashed /\ StreakStore("h1")
  \/ ~crashed /\ StreakGauge("h1")
  \/ ~crashed /\ Observe("h1")
  \/ ~crashed /\ Finish("h1")
  \/ ~crashed /\ TickLoadTotal
  \/ ~crashed /\ TickLoadSuccess
  \/ ~crashed /\ TickLoadErrors
  \/ ~crashed /\ TickReadCfg
  \/ ~crashed /\ TickEvaluate
  \/ ~crashed /\ Ready

SpecHealth == InitHealth /\ [][NextHealth]_vars

\* the health loop ticking while requests are served and the file is reloaded
\* with other health settings
InitTick == InitWorld("tick")

NextTick ==
  \/ ~crashed /\ Arrive("h1")
  \/ ~crashed /\ Snapshot("h1")
  \/ ~crashed /\ TenantCheck("h1")
  \/ ~crashed /\ ReadBody("h1")
  \/ ~crashed /\ WriteBegin("h1")
  \/ ~crashed /\ WriteFails("h1")
  \/ ~crashed /\ WriteSucceeds("h1")
  \/ ~crashed /\ RespondOK("h1")
  \/ ~crashed /\ TrackTotal("h1")
  \/ ~crashed /\ TrackResult("h1")
  \/ ~crashed /\ StreakLoad("h1")
  \/ ~crashed /\ StreakStore("h1")
  \/ ~crashed /\ StreakGauge("h1")
  \/ ~crashed /\ Observe("h1")
  \/ ~crashed /\ Finish("h1")
  \/ ~crashed /\ TickLoadTotal
  \/ ~crashed /\ TickLoadSuccess
  \/ ~crashed /\ TickLoadErrors
  \/ ~crashed /\ TickReadCfg
  \/ ~crashed /\ TickEvaluate
  \/ ~crashed /\ ReloadBegin("sighup")
  \/ ~crashed /\ ReloadLock("sighup")
  \/ ~crashed /\ ReloadPublish("sighup")
  \/ ~crashed /\ ReloadBuildLimiters("sighup")
  \/ ~crashed /\ ReloadReturn("sighup")

SpecTick == InitTick /\ [][NextTick]_vars

\* /configz asked while the file is reloaded with other credentials
InitAdmin == InitWorld("admin")

NextAdmin ==
  \/ Configz
  \/ \E r \in Reloaders : ReloadStep(r)

SpecAdmin == InitAdmin /\ [][NextAdmin]_vars

\* POST /reload and SIGHUP calling Reload at the same time, again and again
InitReloads == InitWorld("reloads")

NextReloads == \E r \in Reloaders : ReloadStep(r)

SpecReloads == InitReloads /\ [][NextReloads]_vars

\* requests served one after another under every rate-limit setting
InitLimits == InitWorld("limits")

NextLimits == HandlerStep("h1")

SpecLimits == InitLimits /\ [][NextLimits]_vars

\* one request with every combination of tenant, Content-Type and
\* Content-Encoding headers
InitHeaders == InitWorld("headers")

NextHeaders == HandlerStep("h1")

SpecHeaders == InitHeaders /\ [][NextHeaders]_vars

\* the process started from, and reloading, files that break or bend each
\* rule of Validate
InitValidate == InitWorld("validate")

NextValidate == \E r \in Reloaders : ReloadStep(r)

SpecValidate == InitValidate /\ [][NextValidate]_vars

\* main has exited: Start returned an error, or Stop has returned
Exited == life.phase = "failed" \/ life.stop = "returned"

\* the process from server.New on: Start with its probe, then requests
InitStart == InitWorld("start")

NextStart ==
  \/ Start
  \/ ~Exited /\ Arrive("h1")
  \/ ~Exited /\ Snapshot("h1")
  \/ ~Exited /\ TenantCheck("h1")
  \/ ~Exited /\ ReadBody("h1")
  \/ ~Exited /\ WriteBegin("h1")
  \/ ~Exited /\ WriteFails("h1")
  \/ ~Exited /\ WriteSucceeds("h1")
  \/ ~Exited /\ RespondOK("h1")
  \/ ~Exited /\ TrackTotal("h1")
  \/ ~Exited /\ TrackResult("h1")
  \/ ~Exited /\ StreakLoad("h1")
  \/ ~Exited /\ StreakStore("h1")
  \/ ~Exited /\ StreakGauge("h1")
  \/ ~Exited /\ Observe("h1")
  \/ ~Exited /\ Finish("h1")

SpecStart == InitStart /\ [][NextStart]_vars

\* a request and the health loop while Stop is called; nothing runs once
\* main has exited
InitStop == InitWorld("stop")

NextStop ==
  \/ ~Exited /\ Arrive("h1")
  \/ ~Exited /\ Snapshot("h1")
  \/ ~Exited /\ TenantCheck("h1")
  \/ ~Exited /\ ReadBody("h1")
  \/ ~Exited /\ WriteBegin("h1")
  \/ ~Exited /\ WriteFails("h1")
  \/ ~Exited /\ WriteSucceeds("h1")
  \/ ~Exited /\ RespondOK("h1")
  \/ ~Exited /\ TrackTotal("h1")
  \/ ~Exited /\ TrackResult("h1")
  \/ ~Exited /\ StreakLoad("h1")
  \/ ~Exited /\ StreakStore("h1")
  \/ ~Exited /\ StreakGauge("h1")
  \/ ~Exited /\ Observe("h1")
  \/ ~Exited /\ Finish("h1")
  \/ ~Exited /\ TickLoadTotal
  \/ ~Exited /\ TickLoadSuccess
  \/ ~Exited /\ TickLoadErrors
  \/ ~Exited /\ TickReadCfg
  \/ ~Exited /\ TickEvaluate
  \/ ~Exited /\ HealthLoopStops
  \/ ~Exited /\ StopBegin
  \/ ~Exited /\ ShutdownBegin
  \/ ~Exited /\ ShutdownReturns
  \/ ~Exited /\ StopLock
  \/ ~Exited /\ StopClose

SpecStop == InitStop /\ [][NextStop]_vars

\* the health loop ticking and /ready and /configz asked beside a request and
\* reloads of the file ("frame"), or beside requests served one after another
\* ("rejects")
InitFrame == InitWorld("frame") \/ InitWorld("rejects")

NextFrame ==
  \/ BurstStep("h1")
  \/ ReloadStep("sighup")
  \/ TickLoadTotal
  \/ TickLoadSuccess
  \/ TickLoadErrors
  \/ TickReadCfg
  \/ TickEvaluate
  \/ Ready
  \/ Configz

SpecFrame == InitFrame /\ [][NextFrame]_vars

\* a request, two callers of Reload, the health loop, /configz and Stop, all
\* at once; nothing runs once main has exited.  The goroutines that are
\* running are scheduled fairly: a handler, a Reload call, the health loop and
\* Stop each take their next step when it stays possible
InitLive == InitWorld("live")

HandlerProgress(h) == ~Exited /\ hs[h].pc # "idle" /\ BurstStep(h)
ReloadProgress(r) == ~Exited /\ rl[r].pc # "idle" /\ ReloadStep(r)
TickStep ==
  \/ TickLoadTotal
  \/ TickLoadSuccess
  \/ TickLoadErrors
  \/ TickReadCfg
  \/ TickEvaluate
  \/ HealthLoopStops
TickProgress == ~Exited /\ hl.pc # "wait" /\ TickStep
StopStep ==
  \/ ShutdownBegin
  \/ ShutdownReturns
  \/ StopLock
  \/ StopClose
StopProgress == ~Exited /\ StopStep

NextLive ==
  \/ ~Exited /\ BurstStep("h1")
  \/ \E r \in Reloaders : ~Exited /\ ReloadStep(r)
  \/ ~Exited /\ TickStep
  \/ ~Exited /\ Configz
  \/ ~Exited /\ StopBegin
  \/ StopProgress

SpecLive ==
  /\ InitLive
  /\ [][NextLive]_vars
  /\ WF_vars(HandlerProgress("h1"))
  /\ \A r \in Reloaders : WF_vars(ReloadProgress(r))
  /\ WF_vars(TickProgress)
  /\ WF_vars(StopProgress)

\* ------------------------------------------------------------- properties
\* what Reload may replace: the published configuration, producer and limiters,
\* the producers' open/closed state and the limiters' token counts
ServerState == << cfg, kWriter, writers, globalLimiter, tenantLimiters, gLims, tLims >>

AllReloadersIdle == \A r \in Reloaders : rl[r].pc = "idle"

\* a failed Reload's last step, the return with the error, changes nothing
FailedReturnKeepsState(r) ==
  (rl[r].pc = "return" /\ rl[r].err # NoErr /\ rl'[r].pc = "idle")
    => UNCHANGED ServerState

\* C1: the configuration, global limiter, tenant limiters and producer a
\* handler works with were all published together by one generation, and the
\* balancer of that configuration is the balancer its producer was built with.
C1_SnapshotConsistent ==
  \A h \in Handlers :
    hs[h].pc \notin {"idle", "snapshot"} =>
      /\ Tuple(hs[h].cfg, hs[h].gl, hs[h].tl, hs[h].kw) \in published
      /\ writers[hs[h].kw].Balancer
           = NewWriter(WriterConfigOf(hs[h].cfg)).w.Balancer

\* a handler still working with the generation it captured after a reload has
\* published a newer configuration and a newer producer
C1_Witness ==
  /\ AllReloadersIdle
  /\ \E h \in Handlers :
       /\ hs[h].pc = "write"
       /\ hs[h].cfg # cfg
       /\ hs[h].kw # kWriter
       /\ Tuple(cfg, globalLimiter, tenantLimiters, kWriter) \in published

\* C2: no request is answered 503 because the producer handle it captured was
\* closed by a reload before or during its write.
C2_NoSpurious503 ==
  \A h \in Handlers : ~(hs[h].status = 503 /\ hs[h].kerr = ErrClosedPipe)

\* C3: a Reload whose file cannot be read, parsed or validated returns an
\* error and leaves the configuration, the producer (neither replaced nor
\* closed) and both limiters with their token counts exactly as they were.
C3_FailedLoadKeepsState ==
  [][\A r \in Reloaders :
       /\ (rl[r].pc = "idle" /\ rl'[r].pc # "idle"
             /\ LoadFromFile(rl'[r].file).err # NoErr)
            => (rl'[r].pc = "return" /\ rl'[r].err # NoErr /\ UNCHANGED ServerState)
       /\ (rl[r].err \notin {NoErr, "rebuild writer"}) => FailedReturnKeepsState(r)]_vars

\* a Reload about to return a load error while a limiter has spent a token
C3_Witness ==
  \E r \in Reloaders :
    /\ rl[r].pc = "return"
    /\ rl[r].err # NoErr
    /\ rl[r].file \in InvalidFiles
    /\ globalLimiter # Nil
    /\ gLims[globalLimiter].tokens < gLims[globalLimiter].burst

\* C4: when a reload changes the immutable subset and the construction of the
\* new producer fails, Reload returns the error, the old producer stays
\* published and open, and the configuration and limiters are not replaced.
C4_FailedRebuildKeepsState ==
  [][\A r \in Reloaders :
       /\ (rl[r].pc = "lock" /\ rl'[r].pc # "lock"
             /\ ImmutableSubset(cfg) # ImmutableSubset(rl[r].newCfg)
             /\ NewWriter(WriterConfigOf(rl[r].newCfg)).err # NoErr)
            => /\ rl'[r].pc = "return"
               /\ rl'[r].err # NoErr
               /\ UNCHANGED ServerState
               /\ ~writers'[kWriter'].closed
       /\ (rl[r].err = "rebuild writer") => FailedReturnKeepsState(r)]_vars

\* a Reload about to return the construction error with the old producer
\* still published and open
C4_Witness ==
  \E r \in Reloaders :
    /\ rl[r].pc = "return"
    /\ rl[r].err = "rebuild writer"
    /\ ImmutableSubset(rl[r].oldCfg) # ImmutableSubset(rl[r].newCfg)
    /\ kWriter = rl[r].prevWriter
    /\ ~writers[kWriter].closed
    /\ cfg = rl[r].oldCfg

\* C5: a successful reload whose new configuration differs from the running
\* one in anything handed to the producer (brokers, topic, acks, balancer,
\* timeout, SASL and TLS settings) or in the tenant-label flag publishes a new
\* producer built from the new configuration.
C5_ImmutableChangeReplacesProducer ==
  \A r \in Reloaders :
    ( /\ rl[r].pc = "return"
      /\ rl[r].err = NoErr
      /\ \/ WriterConfigOf(rl[r].oldCfg) # WriterConfigOf(rl[r].newCfg)
         \/ rl[r].oldCfg.MetricsEnableTenantLabel # rl[r].newCfg.MetricsEnableTenantLabel )
    => /\ kWriter # rl[r].prevWriter
       /\ writers[kWriter] = NewWriter(WriterConfigOf(rl[r].newCfg)).w

RejectedResults == {"missing_tenant", "rate_limited", "bad_request", "too_large"}

\* C6: a request hands at most one message to the producer, and none when it
\* ends as missing_tenant, rate_limited, bad_request or too_large.
C6_AtMostOneWrite ==
  \A h \in Handlers :
    /\ Len(hs[h].msgs) <= 1
    /\ hs[h].result \in RejectedResults => Len(hs[h].msgs) = 0

\* two completed requests: one was rejected without a write, the other's one
\* write failed and was not repeated
C6_Witness ==
  \E h1, h2 \in Handlers :
    /\ hs[h1].pc = "done" /\ hs[h1].result = "kafka_error" /\ Len(hs[h1].msgs) = 1
    /\ hs[h2].pc = "done" /\ hs[h2].result \in RejectedResults /\ Len(hs[h2].msgs) = 0

AllRequestsCompleted == \A h \in Handlers : hs[h].pc \in {"idle", "done", "panicked"}

\* C7: once every request has completed, total = success + errors.
C7_TotalIsSuccessPlusErrors ==
  AllRequestsCompleted =>
    metrics.totalAll = metrics.totalSuccess + metrics.totalError

\* two requests have completed, one a success and one an error
C7_Witness ==
  /\ AllRequestsCompleted
  /\ metrics.totalAll = 2
  /\ metrics.totalSuccess = 1
  /\ metrics.totalError = 1

\* C8: a request that has ended incremented requests_total exactly once, made
\* exactly one request_duration_seconds observation and emitted one result
\* label.
C8_OneIncOneObservation ==
  \A h \in Handlers :
    hs[h].pc \in {"done", "panicked"} =>
      /\ hs[h].reqInc = 1
      /\ hs[h].obs = 1
      /\ hs[h].obsLabel # ""

\* C9: a request that has ended incremented total exactly once, success iff it
\* was answered 204 after a successful produce, and errors iff it ended as
\* missing_tenant, rate_limited, bad_request, too_large or kafka_error.
C9_CounterTriple ==
  \A h \in Handlers :
    hs[h].pc \in {"done", "panicked"} =>
      /\ hs[h].dTotal = 1
      /\ (hs[h].dSuccess = 1) <=>
           (hs[h].status = 204 /\ Len(hs[h].msgs) = 1 /\ hs[h].kerr = NoErr)
      /\ (hs[h].dErrors = 1) <=>
           (hs[h].result \in RejectedResults \cup {"kafka_error"})
      /\ hs[h].dSuccess \in {0, 1}
      /\ hs[h].dErrors \in {0, 1}

\* C10: a message handed to the producer carries the request's effective
\* tenant as its key iff the balancer of the configuration the handler
\* captured is hash; under sticky and round_robin the key is unset.
C10_KeyIffHash ==
  \A h \in Handlers :
    \A i \in 1..Len(hs[h].msgs) :
      LET tenant == IF hs[h].hdr = "" THEN hs[h].cfg.DefaultTenant ELSE hs[h].hdr IN
      /\ hs[h].cfg.KafkaBalancer \in {"hash", "sticky", "round_robin"}
      /\ hs[h].cfg.KafkaBalancer = "hash" => hs[h].msgs[i].Key = <<tenant>>
      /\ hs[h].cfg.KafkaBalancer # "hash" => hs[h].msgs[i].Key = << >>

\* a keyless message of a handler that captured a sticky configuration before
\* a reload published a hash one
C10_Witness ==
  \E h \in Handlers :
    /\ Len(hs[h].msgs) = 1
    /\ hs[h].msgs[1].Key = << >>
    /\ hs[h].cfg.KafkaBalancer = "sticky"
    /\ cfg.KafkaBalancer = "hash"

\* a request has ended: answered, or aborted by a panic
Ended(h) == hs[h].pc \in {"done", "panicked"}

\* the tenant label is off in the configuration the request captured
LabelOff(h) == ~hs[h].cfg.MetricsEnableTenantLabel

\* the POST request read its body without a transport error
BodyArrived(h) ==
  /\ Ended(h)
  /\ hs[h].method = "POST"
  /\ hs[h].result \in {"", "too_large", "kafka_error", "success"}

BodyFidelity(h) ==
  /\ \A i \in 1..Len(hs[h].msgs) : hs[h].msgs[i].Value = hs[h].sent
  /\ (BodyArrived(h) /\ Len(hs[h].sent) <= hs[h].cfg.MaxBodyBytes)
       => (Len(hs[h].msgs) = 1 /\ hs[h].msgs[1].Value = hs[h].sent)
  /\ (BodyArrived(h) /\ Len(hs[h].sent) > hs[h].cfg.MaxBodyBytes)
       => /\ hs[h].status = 400
          /\ hs[h].result = "too_large"
          /\ hs[h].dErrors = 1
          /\ Len(hs[h].msgs) = 0

\* C11: a body of at most max_body_bytes bytes is handed to the producer
\* byte for byte; a longer body ends the request with 400 too_large, errors+1
\* and no write.
C11_BodyFidelity == \A h \in Handlers : BodyFidelity(h)

\* with the tenant label off, C11's property holds
C11_LabelOff == \A h \in Handlers : LabelOff(h) => BodyFidelity(h)

Min(a, b) == IF a <= b THEN a ELSE b

AllAdmissionsDecided ==
  /\ nreq = RequestBudget(world)
  /\ \A h \in Handlers : hs[h].pc \notin {"snapshot", "tenant", "ratelimit_global"}

GlobalRejectionAnswered(h) ==
  (Ended(h) /\ hs[h].result = "rate_limited")
    => /\ hs[h].pc = "done"
       /\ hs[h].status = 429
       /\ hs[h].text = "rate limited (global)"
       /\ Len(hs[h].msgs) = 0

\* C12: of N requests issued against a global bucket of burst B with no refill,
\* exactly N - min(N, B) are rejected, each answered 429 'rate limited
\* (global)', and the other min(N, B) pass admission.
C12_GlobalBurst ==
  /\ AllAdmissionsDecided =>
       metrics.rateLimitedGlobal
         = RequestBudget(world) - Min(RequestBudget(world), gLims[globalLimiter].burst)
  /\ \A h \in Handlers : GlobalRejectionAnswered(h)

\* with the tenant label off, C12's property holds
C12_LabelOff ==
  /\ AllAdmissionsDecided =>
       metrics.rateLimitedGlobal
         = RequestBudget(world) - Min(RequestBudget(world), gLims[globalLimiter].burst)
  /\ \A h \in Handlers : LabelOff(h) => GlobalRejectionAnswered(h)

\* C13: with requests served one after another, the streak k grows by exactly
\* one with each kafka_error outcome, a successful produce resets it to 0,
\* nothing else changes it, and between requests the gauge equals k.
C13_SequentialStreak ==
  [][/\ \A h \in Handlers :
          /\ (hs[h].pc = "k_store" /\ hs'[h].pc # "k_store")
               => consecutiveErrors' = consecutiveErrors + 1
          /\ (hs[h].pc = "writing" /\ hs'[h].pc = "gauge_zero")
               => consecutiveErrors' = 0
          /\ (hs'[h].pc = "done" /\ hs'[h].result = "kafka_error")
               => consecutiveErrors' >= 1
          /\ (hs'[h].pc = "done" /\ hs'[h].result = "success")
               => consecutiveErrors' = 0
     /\ consecutiveErrors' # consecutiveErrors
          => \E h \in Handlers :
               \/ hs[h].pc = "k_store" /\ hs[h].result = "kafka_error"
               \/ hs[h].pc = "writing" /\ hs'[h].pc = "gauge_zero"
     /\ AllRequestsCompleted' => metrics'.kafkaConsecutiveErrors = consecutiveErrors'
    ]_vars

\* two kafka_error outcomes in a row have brought the streak and its gauge to 2
C13_Witness ==
  /\ world = "inputs"
  /\ AllRequestsCompleted
  /\ consecutiveErrors = 2
  /\ metrics.kafkaConsecutiveErrors = 2

\* the label the classification rules give when read in their written order
SpecifiedLabel(err) ==
  LET msg == ToLower(err.text) IN
  CASE err.deadline \/ err.net = "timeout" \/ Contains(msg, "timeout") -> "timeout"
    [] Contains(msg, "not leader") -> "not_leader"
    [] Contains(msg, "unknown topic") -> "unknown_topic"
    [] Contains(msg, "message too large") -> "too_large"
    [] Contains(msg, "connection refused") -> "conn_refused"
    [] Contains(msg, "connection reset") \/ Contains(msg, "broken pipe") -> "conn_reset"
    [] err.net # "no" -> "network"
    [] OTHER -> "other"

\* C17: the label given to a producer error is that of the first matching
\* rule: timeout (deadline, network timeout or text), not_leader,
\* unknown_topic, too_large, conn_refused, conn_reset, network, other.
C17_ClassifyPrecedence ==
  \A h \in Handlers :
    hs[h].kerrv # NoErrorValue => hs[h].errType = SpecifiedLabel(hs[h].kerrv)

\* C18: a request to a push endpoint with a method other than POST is answered
\* 405 with result client_error and never reaches the limiters, the body or
\* the producer.
C18_NonPostRejected ==
  \A h \in Handlers :
    hs[h].method \notin {"", "POST"} =>
      /\ hs[h].pc \notin {"ratelimit_global", "ratelimit_tenant", "read", "write", "writing"}
      /\ Len(hs[h].msgs) = 0
      /\ Ended(h) => (hs[h].status = 405 /\ hs[h].obsLabel = "client_error")

TenantHeaderOf(m) == m.Headers[1][2]

PastTenantCheck(rec) == rec.pc \notin {"idle", "snapshot", "tenant"}

EmptyTenantHandled(rec, limiterSets) ==
  (rec.method = "POST" /\ rec.hdr = "" /\ PastTenantCheck(rec)) =>
    IF rec.cfg.AllowEmptyTenant
    THEN /\ rec.tenant = rec.cfg.DefaultTenant
         /\ rec.result # "missing_tenant"
         /\ \A i \in 1..Len(rec.msgs) :
              /\ TenantHeaderOf(rec.msgs[i]) = rec.cfg.DefaultTenant
              /\ rec.cfg.KafkaBalancer = "hash" => rec.msgs[i].Key = <<rec.cfg.DefaultTenant>>
         /\ (rec.tl # Nil /\ rec.pc \notin {"ratelimit_global", "ratelimit_tenant"})
              => rec.cfg.DefaultTenant \in DOMAIN limiterSets[rec.tl].limiters
    ELSE /\ rec.status = 400
         /\ rec.result = "missing_tenant"
         /\ Len(rec.msgs) = 0
         /\ rec.pc \in {"done", "panicked"} => rec.dErrors = 1

\* C19, the state it leaves: with allow_empty_tenant the request goes on under
\* default_tenant (limiter, Kafka header, hash key); without it the request
\* ends 400 missing_tenant with errors+1 and no write.
C19_State == \A h \in Handlers : EmptyTenantHandled(hs[h], tLims)

\* C19: an empty tenant header is replaced by default_tenant when the captured
\* configuration allows it; otherwise the request ends with 400
\* missing_tenant, errors+1, no token consumed and no write.
C19_EmptyTenant ==
  [][/\ \A h \in Handlers :
          /\ EmptyTenantHandled(hs'[h], tLims')
          /\ (hs'[h].result = "missing_tenant" /\ hs'[h] # hs[h])
               => UNCHANGED << gLims, tLims, writers >>
    ]_vars

\* with the tenant label off, C19's property holds
C19_LabelOff ==
  [][/\ \A h \in Handlers :
          /\ ~hs'[h].cfg.MetricsEnableTenantLabel => EmptyTenantHandled(hs'[h], tLims')
          /\ (hs'[h].result = "missing_tenant" /\ hs'[h] # hs[h])
               => UNCHANGED << gLims, tLims, writers >>
    ]_vars


\* a step of the health loop that evaluates a window: the tick leaves its
\* evaluation, normally or by a panic
TickEvaluates == hl.pc = "eval" /\ hl'.pc # "eval"

\* the configurations that have been visible outside the write lock
PublishedConfigs == { t.cfg : t \in published }

\* health_up after the tick is 0 iff the window's error rate exceeds the
\* threshold or the streak has reached its threshold, both thresholds taken
\* from a published configuration read at this tick
HealthDecided ==
  /\ hl.cfg \in PublishedConfigs
  /\ (metrics'.healthUp = 0) <=>
       \/ hl.dErr * 100 > hl.cfg.HealthErrorRateThreshold * hl.dTotal
       \/ consecutiveErrors >= hl.cfg.HealthConsecutiveErrorThreshold
  /\ metrics'.healthUp \in {0, 1}

\* C14: on every health tick whose window has dT > 0, health_up is set to 0
\* iff dE/dT > error_rate_threshold or k >= consecutive_error_threshold, and
\* to 1 otherwise, with the thresholds of the configuration published at that
\* tick.
C14_HealthDecision ==
  [][ (TickEvaluates /\ hl.dTotal > 0) => HealthDecided ]_vars

\* the same for the ticks at which the SLA gauge is not written or was
\* registered at startup
C14_GaugeRegistered ==
  [][ (TickEvaluates /\ hl.dTotal > 0 /\ (hl.cfg.SLAGaugeEnable => metrics.slaRegistered))
        => HealthDecided ]_vars

\* C15: on a health tick whose window has dT = 0, health_up and the SLA gauge
\* keep their values, whatever the streak is, and the previous snapshot is
\* the one this tick loaded.
C15_IdleWindowKeepsGauges ==
  [][ (TickEvaluates /\ hl.dTotal = 0) =>
        /\ metrics'.healthUp = metrics.healthUp
        /\ metrics'.slaSuccessRatio = metrics.slaSuccessRatio
        /\ hl.prevTotal = hl.totalNow /\ hl'.prevTotal = hl.totalNow
        /\ hl.prevSuccess = hl.succNow /\ hl'.prevSuccess = hl.succNow
        /\ hl.prevErrors = hl.errNow /\ hl'.prevErrors = hl.errNow
        /\ ~crashed' ]_vars

\* a degraded server whose last completed tick saw no traffic, with the streak
\* below its threshold: it is still degraded
C15_Witness ==
  /\ hl.pc = "wait"
  /\ hl.dTotal = 0
  /\ metrics.healthUp = 0
  /\ consecutiveErrors < cfg.HealthConsecutiveErrorThreshold
  /\ hl.prevTotal = metrics.totalAll /\ hl.prevTotal > 0

\* C16: GET /ready answers 200 whenever health_up is non-zero and 503
\* "degraded" whenever health_up is 0.
C16_ReadyReflectsGauge ==
  adm.ready # 0 =>
    /\ adm.healthUp # 0 => adm.ready = 200
    /\ adm.healthUp = 0 => adm.ready = 503 /\ adm.readyText = "degraded"

\* the passwords a configuration may carry, and the fields of the /configz
\* answer that hold text
SASLPasswords == {"", "p1", "p2", "p3"}
ViewTextFields ==
  { "KafkaTopic", "KafkaBalancer", "KafkaWriteTimeout", "KafkaSASLMechanism",
    "KafkaSASLUsername", "KafkaTLSCAFile", "DefaultTenant", "HealthEvalPeriod",
    "LogLevel", "Port" }

\* C20: the /configz answer is the same for every configuration that differs
\* from the running one only in kafka_sasl_password, and the password's value
\* appears nowhere in it.
C20_ConfigzHidesPassword ==
  adm.configz # NoView =>
    /\ \A p \in SASLPasswords :
         adm.configz = RuntimeView([adm.cfg EXCEPT !.KafkaSASLPassword = p])
    /\ "KafkaSASLPassword" \notin DOMAIN adm.configz
    /\ adm.cfg.KafkaSASLPassword # "" =>
         /\ \A f \in ViewTextFields : adm.configz[f] # adm.cfg.KafkaSASLPassword
         /\ \A i \in DOMAIN adm.configz.KafkaBrokers :
              adm.configz.KafkaBrokers[i] # adm.cfg.KafkaSASLPassword

\* /configz answered for a configuration with a password that a reload
\* published in place of another password
C20_Witness ==
  /\ adm.configz # NoView
  /\ adm.cfg.KafkaSASLPassword = "p2"
  /\ adm.cfg = cfg
  /\ \E t \in published : t.cfg = [cfg EXCEPT !.KafkaSASLPassword = "p1"]


\* what Stop has done so far is in the order health evaluator, HTTP shutdown,
\* producer: the listeners close only after stopHealth, the current producer
\* only after Shutdown has returned
StopInOrder ==
  /\ (life.stop # "idle" /\ ~life.listening) => life.stopHealth = "closed"
  /\ writers[kWriter].closed =>
       (life.stopHealth = "closed" /\ ~life.listening /\ life.stop = "returned")

\* C21: Stop stops the health evaluator, shuts HTTP down and closes the
\* current producer, in this order; after Stop has returned, with or without
\* an error from the HTTP shutdown, the current producer has been closed.
C21_StopClosesProducer ==
  /\ StopInOrder
  /\ life.stop = "returned" => writers[kWriter].closed

\* the same for the calls of Stop whose HTTP shutdown reported no error
C21_CleanShutdown ==
  /\ StopInOrder
  /\ (life.stop = "returned" /\ life.stopErr = NoErr) => writers[kWriter].closed


\* the probe ran and failed at the dial or at the write
ProbeFailed == life.probe \in {"dial", "write"}

\* C22: with the startup probe enabled and failing, Start returns an error
\* before the health evaluator is started and before any request is accepted
\* when probe_required is set, and startup continues and requests are served
\* when it is not; a disabled probe is never run.
C22_ProbeGatesStartup ==
  /\ (ProbeFailed /\ cfg.KafkaProbeRequired) =>
       /\ life.phase = "failed"
       /\ hl.pc = "off"
       /\ ~life.listening
       /\ nreq = 0 /\ \A h \in Handlers : hs[h].pc = "idle"
  /\ (ProbeFailed /\ ~cfg.KafkaProbeRequired) =>
       /\ life.phase = "serving"
       /\ hl.pc # "off"
       /\ life.listening
  /\ ~cfg.KafkaProbeEnabled => (life.probe = "off" /\ life.probeWrites = 0)
  /\ life.phase = "failed" => (ProbeFailed /\ cfg.KafkaProbeEnabled)
  /\ life.phase = "new" => (~life.listening /\ hl.pc = "off" /\ nreq = 0)

\* the probe failed at its write, was not required, and a request has been
\* answered 204 since
C22_Witness ==
  /\ life.probe = "write"
  /\ ~cfg.KafkaProbeRequired
  /\ life.phase = "serving"
  /\ \E h \in Handlers : hs[h].pc = "done" /\ hs[h].status = 204

\* the required probe failed and Start returned its error
C22_WitnessAborted == life.phase = "failed" /\ life.probe = "dial" /\ cfg.KafkaProbeRequired


\* at most one caller is inside Reload, and it holds config.ReloadMutex
OneReloadAtATime ==
  /\ \A r1, r2 \in Reloaders : (rl[r1].pc # "idle" /\ rl[r2].pc # "idle") => r1 = r2
  /\ \A r \in Reloaders : rl[r].pc # "idle" => reloadMu = r

\* every producer a reload built is the published one or has been closed
NoProducerLeaked ==
  AllReloadersIdle => \A i \in DOMAIN writers : i # kWriter => writers[i].closed

\* what a successful Reload leaves when it returns is what the file it read
\* gives on top of the configuration and producer it found
ReturnsItsOwnResult(r) ==
  (rl[r].pc = "return" /\ rl'[r].pc = "idle" /\ rl[r].err = NoErr) =>
    LET c == LoadFromFile(rl[r].file).cfg IN
    /\ cfg = c
    /\ IF RebuildWriter(rl[r].oldCfg, c)
       THEN /\ kWriter # rl[r].prevWriter
            /\ writers[kWriter] = NewWriter(WriterConfigOf(c)).w
            /\ writers[rl[r].prevWriter].closed
       ELSE kWriter = rl[r].prevWriter
    /\ globalLimiter = (IF BuildGlobal(c) = << >> THEN Nil ELSE Len(gLims))
    /\ tenantLimiters = (IF BuildTenant(c) = << >> THEN Nil ELSE Len(tLims))
    /\ globalLimiter # Nil => << gLims[globalLimiter] >> = BuildGlobal(c)
    /\ tenantLimiters # Nil => << tLims[tenantLimiters] >> = BuildTenant(c)

\* C23: concurrent Reload calls are linearised: the steps of one never
\* interleave with those of another, each successful call leaves the result
\* of its own file on top of what it found, and no producer built by a reload
\* is left both unpublished and unclosed.
C23_ReloadsLinearised ==
  [][ /\ OneReloadAtATime'
      /\ NoProducerLeaked'
      /\ \A r \in Reloaders : ReturnsItsOwnResult(r) ]_vars

\* the second of two producer-rebuilding reloads is about to return to the
\* HTTP caller, the SIGHUP caller being kept out
C23_Witness ==
  /\ nreload = 2
  /\ rl["http"].pc = "return" /\ rl["http"].err = NoErr
  /\ reloadMu = "http" /\ rl["sighup"].pc = "idle"
  /\ Len(writers) = 3 /\ kWriter = 3


\* C24: every successful reload replaces the limiter set with fresh objects
\* built from the new configuration, whether or not a rate-limit field
\* changed: the global bucket is new and full, the per-tenant map is new and
\* empty, and a request that snapshots afterwards gets them.
C24_ReloadRebuildsLimiters ==
  [][ /\ \A r \in Reloaders :
           (rl[r].pc = "limiters" /\ rl'[r].pc = "return") =>
             /\ (globalLimiter' # Nil) <=> (cfg.RateLimitEnabled /\ cfg.RateLimitGlobalRPS > 0)
             /\ (tenantLimiters' # Nil) <=> (cfg.RateLimitEnabled /\ cfg.RateLimitPerTenantRPS > 0)
             /\ globalLimiter' # Nil =>
                  /\ globalLimiter' \notin DOMAIN gLims
                  /\ gLims'[globalLimiter'].tokens = gLims'[globalLimiter'].burst
             /\ tenantLimiters' # Nil =>
                  /\ tenantLimiters' \notin DOMAIN tLims
                  /\ DOMAIN tLims'[tenantLimiters'].limiters = {}
             /\ \A h \in Handlers : hs[h].gl # globalLimiter' \/ hs[h].gl = Nil
             /\ \A h \in Handlers : hs[h].tl # tenantLimiters' \/ hs[h].tl = Nil
      /\ \A h \in Handlers :
           (hs[h].pc = "snapshot" /\ hs'[h].pc # "snapshot") =>
             (hs'[h].gl = globalLimiter /\ hs'[h].tl = tenantLimiters)
    ]_vars

\* a reload of the same rate-limit settings has replaced a global bucket in
\* debt and a tenant map with a bucket by a full bucket and an empty map
C24_Witness ==
  /\ AllReloadersIdle
  /\ Len(gLims) = 2 /\ globalLimiter = 2
  /\ Len(tLims) = 2 /\ tenantLimiters = 2
  /\ gLims[1].tokens < gLims[1].burst
  /\ DOMAIN tLims[1].limiters # {}
  /\ gLims[2].tokens = gLims[2].burst
  /\ DOMAIN tLims[2].limiters = {}
  /\ \E t \in published : t.gl = 1 /\ t.cfg = cfg

Max(a, b) == IF a > b THEN a ELSE b

\* the capacity of a bucket for rps (in tenths) and the configured burst
Capacity(rps, burst) == IF burst > 0 THEN burst ELSE Max(1, (rps * 2) \div 10)

\* C25: for each limiter scope with rps > 0 the bucket capacity is the
\* configured burst when that is > 0, and max(1, floor(rps * 2)) otherwise.
C25_BurstCapacity ==
  /\ cfg.RateLimitGlobalRPS > 0 =>
       /\ globalLimiter # Nil
       /\ gLims[globalLimiter].burst =
            Capacity(cfg.RateLimitGlobalRPS, cfg.RateLimitGlobalBurst)
       /\ gLims[globalLimiter].tokens <= gLims[globalLimiter].burst
  /\ cfg.RateLimitPerTenantRPS > 0 =>
       /\ tenantLimiters # Nil
       /\ tLims[tenantLimiters].burst =
            Capacity(cfg.RateLimitPerTenantRPS, cfg.RateLimitPerTenantBurst)
       /\ \A t \in DOMAIN tLims[tenantLimiters].limiters :
            /\ tLims[tenantLimiters].limiters[t].burst =
                 Capacity(cfg.RateLimitPerTenantRPS, cfg.RateLimitPerTenantBurst)
            /\ tLims[tenantLimiters].limiters[t].tokens
                 <= tLims[tenantLimiters].limiters[t].burst

\* rps 10 without a burst gives a global bucket of 20, rps 0.3 without a
\* burst gives the tenant its bucket of 1, which a request has emptied
C25_Witness ==
  /\ cfg.RateLimitGlobalRPS = 100 /\ cfg.RateLimitGlobalBurst = 0
  /\ gLims[globalLimiter].burst = 20
  /\ cfg.RateLimitPerTenantRPS = 3 /\ cfg.RateLimitPerTenantBurst = 0
  /\ "acme" \in DOMAIN tLims[tenantLimiters].limiters
  /\ tLims[tenantLimiters].limiters["acme"].burst = 1
  /\ tLims[tenantLimiters].limiters["acme"].tokens = 0


\* the headers of message m as a set of <<key, value>> pairs
HeaderSet(m) == { m.Headers[j] : j \in DOMAIN m.Headers }

\* the tenant a request with header hdr is served as under configuration c
EffectiveTenant(c, hdr) == IF hdr = "" THEN c.DefaultTenant ELSE hdr

\* C26: every message the push handler produces carries X-Scope-OrgID with
\* the effective tenant, Content-Type iff the request had a non-empty one,
\* Content-Encoding iff the request had a non-empty one, each with the
\* original value, and no other header.
C26_MessageHeaders ==
  \A h \in Handlers : \A i \in DOMAIN hs[h].msgs :
    LET m == hs[h].msgs[i]
        expected ==
          { <<"X-Scope-OrgID", EffectiveTenant(hs[h].cfg, hs[h].hdr)>> }
          \cup (IF hs[h].ctRaw # "" THEN { <<"Content-Type", hs[h].ctRaw>> } ELSE {})
          \cup (IF hs[h].ce # "" THEN { <<"Content-Encoding", hs[h].ce>> } ELSE {})
    IN /\ HeaderSet(m) = expected
       /\ Len(m.Headers) = Cardinality(expected)

\* a message produced for a request without tenant and Content-Type headers
\* but with a Content-Encoding
C26_Witness ==
  \E h \in Handlers :
    /\ Len(hs[h].msgs) = 1
    /\ hs[h].hdr = "" /\ hs[h].ctRaw = "" /\ hs[h].ce = "snappy"
    /\ hs[h].msgs[1].Headers = << <<"X-Scope-OrgID", "anon">>, <<"Content-Encoding", "snappy">> >>


\* the validation invariants of a configuration, but for the one on the
\* consecutive-error threshold
ValidButForStreak(c) ==
  /\ Len(c.KafkaBrokers) > 0
  /\ c.KafkaTopic # ""
  /\ c.KafkaBalancer \in {"sticky", "round_robin", "hash"}
  /\ c.KafkaWriteTimeout > 0
  /\ c.KafkaProbeTimeout > 0
  /\ c.MaxBodyBytes > 0
  /\ c.HealthEvalPeriod > 0
  /\ c.HealthErrorRateThreshold >= 0 /\ c.HealthErrorRateThreshold <= 100
  /\ c.RateLimitGlobalRPS >= 0 /\ c.RateLimitPerTenantRPS >= 0
  /\ c.RateLimitGlobalBurst >= 0 /\ c.RateLimitPerTenantBurst >= 0
  /\ c.LogLevel \in {"info", "debug"}
  /\ c.KafkaSASLEnabled =>
       /\ ToLower(TrimSpace(c.KafkaSASLMechanism)) \in {"scram-sha-512", "scram-sha-256"}
       /\ TrimSpace(c.KafkaSASLUsername) # ""

ValidConfiguration(c) == ValidButForStreak(c) /\ c.HealthConsecutiveErrorThreshold >= 0

\* the configurations Parse has accepted: the published one and the one a
\* caller of Reload has loaded
AcceptedConfigs ==
  { cfg } \cup { rl[r].newCfg : r \in { x \in Reloaders : rl[x].pc \notin {"idle", "return"} } }

\* C27: a configuration is accepted by Parse/Validate only if every
\* validation invariant holds, so the published configuration satisfies them
\* in every reachable state.
C27_AcceptedIsValid == \A c \in AcceptedConfigs : ValidConfiguration(c)

\* every accepted configuration satisfies all the invariants but the one on
\* the consecutive-error threshold
C27_ButForStreak == \A c \in AcceptedConfigs : ValidButForStreak(c)


\* the producers Close has been called on, and those that were published
ClosedProducers == { i \in DOMAIN writers : writers[i].closed }
PublishedProducers == { t.kw : t \in published }

\* the published producer is open, no producer was closed twice, and between
\* reloads the closed producers are exactly the replaced ones
ProducerLifecycle ==
  /\ ~writers[kWriter].closed
  /\ \A i \in DOMAIN writers :
       /\ writers[i].closes <= 1
       /\ writers[i].closed <=> writers[i].closes = 1
  /\ AllReloadersIdle =>
       /\ ClosedProducers = DOMAIN writers \ {kWriter}
       /\ Cardinality(ClosedProducers) = Cardinality(PublishedProducers) - 1

\* a reload that replaced the producer has closed the one it found, once; any
\* other reload that took the lock has closed nothing
ClosesWhatItReplaced(r) ==
  (rl[r].pc = "return" /\ rl'[r].pc = "idle" /\ rl[r].prevWriter # Nil) =>
    IF rl[r].err = NoErr /\ RebuildWriter(rl[r].oldCfg, rl[r].newCfg)
    THEN /\ kWriter # rl[r].prevWriter
         /\ writers[rl[r].prevWriter].closes = 1
         /\ ClosedProducers = DOMAIN writers \ {kWriter}
    ELSE /\ kWriter = rl[r].prevWriter
         /\ writers[kWriter].closes = 0
         /\ Len(writers) = Cardinality(PublishedProducers)

\* C28: the published producer handle is open in every reachable state, and
\* every handle a reload replaced is closed exactly once: a reload of the
\* immutable subset closes one producer, a mutable-only or failed reload none.
C28_ProducerLifecycle ==
  [][ ProducerLifecycle' /\ \A r \in Reloaders : ClosesWhatItReplaced(r) ]_vars

\* a reload has replaced the first producer, which was closed once
C28_Witness ==
  /\ AllReloadersIdle
  /\ Len(writers) = 2 /\ kWriter = 2
  /\ writers[1].closes = 1 /\ writers[2].closes = 0

\* in a reload that rebuilds the producer, the new one exists before the old
\* one is closed and is assigned to s.kWriter before the old one is closed
RebuildOrder ==
  \A r \in Reloaders :
    /\ rl[r].pc = "swap" =>
         (rl[r].newWriter \in DOMAIN writers /\ ~writers[kWriter].closed)
    /\ rl[r].pc = "close" =>
         (kWriter = rl[r].newWriter /\ ~writers[rl[r].oldWriter].closed)
    /\ rl[r].pc = "close_wait" => kWriter = rl[r].newWriter

\* C29: in a reload that rebuilds the producer the new producer is built and
\* published before the old one is closed, and while the old one is being
\* closed a handler that arrives can take its snapshot of the new handle.
C29_SwapObservable ==
  /\ RebuildOrder
  /\ \A r \in Reloaders : rl[r].pc \in {"close", "close_wait"} => CanRLock

\* the order of construction, assignment and close alone
C29_Order == RebuildOrder

\* C30: a push handler holds the read lock only while it copies the four
\* pointers, never during limiter calls, body read or Kafka write, so a
\* Reload waiting for the write lock is not kept waiting by them.
C30_ReadLockOnlyForSnapshot ==
  /\ mu.readers = Cardinality({ h \in Handlers : hs[h].pc = "snapshot" })
  /\ \A r \in Reloaders :
       (rl[r].pc = "lock" /\ mu.writer = NoHolder /\ \A h \in Handlers : hs[h].pc # "snapshot")
         => CanLock

\* a Reload holds the write lock while a handler's Kafka write is in flight
C30_Witness ==
  \E h \in Handlers, r \in Reloaders :
    /\ hs[h].pc = "writing"
    /\ rl[r].pc = "publish"
    /\ mu.writer = r

\* C31: with push handlers running concurrently, once every request in flight
\* has completed the consecutive-error gauge equals the streak counter
\* s.consecutiveErrors, whatever the interleaving of failing and succeeding
\* produces.
C31_GaugeMirrorsStreak ==
  (\A h \in Handlers : hs[h].pc = "idle")
    => metrics.kafkaConsecutiveErrors = consecutiveErrors

\* the streak counter and its gauge
Streak == << consecutiveErrors, metrics.kafkaConsecutiveErrors >>

\* the step is one of handler h after its Kafka write has returned: the
\* write's return itself, or the counter and gauge updates that follow it
ProduceStep(h) ==
  /\ hs[h].pc \in {"writing", "gauge_zero", "k_store", "k_gauge"}
  /\ hs'[h] # hs[h]

\* C32: the consecutive-error streak and its gauge are changed only by the
\* Kafka produce step of the push handler: requests ending as missing_tenant,
\* rate_limited, bad_request or too_large, successful and failed reloads (also
\* one that replaces the producer), health ticks, /ready and /configz leave
\* both unchanged.
C32_StreakOnlyByProduce ==
  [][ /\ (Streak' # Streak) => \E h \in Handlers : ProduceStep(h)
      /\ (rl' # rl \/ hl' # hl \/ adm' # adm) => UNCHANGED Streak
      /\ \A h \in Handlers :
           (hs'[h] # hs[h] /\ hs'[h].result \in RejectedResults) => UNCHANGED Streak
    ]_vars

\* with the streak at 1 after a failed produce, a request has ended as
\* rate_limited, a tick has evaluated the window and /ready and /configz were
\* answered
C32_RejectedWitness ==
  /\ consecutiveErrors = 1
  /\ metrics.kafkaConsecutiveErrors = 1
  /\ hs["h1"].pc = "done"
  /\ hs["h1"].result = "rate_limited"
  /\ hl.prevTotal = 2
  /\ hl.pc = "wait"
  /\ adm.ready = 200
  /\ adm.configz = RuntimeView(cfg)

\* with the streak at 1 after a failed produce, a reload has replaced the
\* producer, a tick has evaluated the window and /ready and /configz were
\* answered
C32_Witness ==
  /\ consecutiveErrors = 1
  /\ metrics.kafkaConsecutiveErrors = 1
  /\ kWriter = 2
  /\ writers[1].closed
  /\ rl["sighup"].pc = "idle"
  /\ hl.prevTotal > 0
  /\ hl.pc = "wait"
  /\ adm.ready = 200
  /\ adm.configz = RuntimeView(cfg)

\* Reload call r has loaded a configuration whose immutable subset equals
\* that of the configuration it replaces (s.cfg until the call has taken the
\* write lock, the configuration it found there afterwards)
SameImmutable(r) ==
  /\ rl[r].pc \notin {"idle"}
  /\ rl[r].err = NoErr
  /\ ImmutableSubset(rl[r].newCfg)
       = ImmutableSubset(IF rl[r].pc = "lock" THEN cfg ELSE rl[r].oldCfg)

\* C33: a successful reload whose new configuration has the same immutable
\* subset as the running one (only mutable fields, the listen port or probe
\* settings differ) keeps the same producer handle published, constructs no
\* producer and closes none, and still publishes the new configuration.
C33_MutableReloadKeepsProducer ==
  [][ \A r \in Reloaders :
        SameImmutable(r) =>
          /\ UNCHANGED << kWriter, writers >>
          /\ rl'[r].err = NoErr
          /\ (rl[r].pc = "return" /\ rl'[r].pc = "idle") =>
               /\ cfg = rl[r].newCfg
               /\ kWriter = rl[r].prevWriter
               /\ rl[r].newWriter = Nil
               /\ rl[r].oldWriter = Nil
    ]_vars

\* a reload that changed only the listen port is about to return
C33_Witness ==
  \E r \in Reloaders :
    /\ rl[r].pc = "return"
    /\ SameImmutable(r)
    /\ rl[r].newCfg.Port # rl[r].oldCfg.Port
    /\ cfg = rl[r].newCfg
    /\ kWriter = rl[r].prevWriter

\* a reload that changed only the probe settings is about to return
C33_ProbeWitness ==
  \E r \in Reloaders :
    /\ rl[r].pc = "return"
    /\ SameImmutable(r)
    /\ rl[r].newCfg.KafkaProbeEnabled # rl[r].oldCfg.KafkaProbeEnabled
    /\ cfg = rl[r].newCfg
    /\ kWriter = rl[r].prevWriter

\* C34: for both settings of metrics_enable_tenant_label at startup, every
\* requests_total and request_bytes_total update supplies as many label
\* values as the collector was registered with label names (tenant among them
\* iff the flag is enabled), so no path of the push handler is aborted by a
\* label mismatch.
C34_LabelsMatchRegistration ==
  \A h \in Handlers :
    hs[h].pc # "idle" =>
      /\ MakeRequestLabels(metrics) = metrics.reqLabels
      /\ MakeRequestBytesLabels(metrics) = metrics.reqBytesLabels
      /\ hs[h].pc # "panicked"

\* with the flag disabled at startup the label values match the registration
\* and no request is aborted
C34_FlagDisabled ==
  (metrics.reqLabels = 3 /\ metrics.reqBytesLabels = 1) =>
    C34_LabelsMatchRegistration

\* the tick's evaluation step, for a window with dT > 0, completes normally:
\* the loop goes back to waiting, the process lives, and sla_success_ratio
\* (in hundredths) is dS/dT iff the configuration the tick read enables it
TickCompletes ==
  (hl.pc = "eval" /\ hl.dTotal > 0 /\ hl' # hl) =>
    /\ ~crashed'
    /\ hl'.pc = "wait"
    /\ metrics'.slaSuccessRatio =
         IF hl.cfg.SLAGaugeEnable THEN (hl.dSucc * 100) \div hl.dTotal
         ELSE metrics.slaSuccessRatio

\* C35: the SLA gauge toggle is a mutable field: after any sequence of reloads
\* that change sla_gauge_enable (enabling it on a server started with it
\* disabled included), every health tick with dT > 0 completes normally, sets
\* sla_success_ratio = dS/dT iff the published configuration enables it, and
\* the health evaluator keeps running.
C35_SLAToggleMutable == [][TickCompletes]_vars

\* on a server whose SLA gauge was registered at startup every tick completes
\* as claimed, whatever the reloads did to sla_gauge_enable
C35_RegisteredAtStartup == [][metrics.slaRegistered => TickCompletes]_vars

\* C36: the health evaluator's tick period equals the health_eval_period of
\* the currently published configuration: once a successful reload has changed
\* health_eval_period, the ticks that follow are fired by a ticker of the new
\* period.
C36_PeriodFollowsConfig ==
  [][ (hl.pc = "wait" /\ hl'.pc = "load_success" /\ mu.writer = NoHolder)
        => hl.period = cfg.HealthEvalPeriod ]_vars

\* the ticker keeps the period healthLoop created it with
C36_PeriodFixedAtStart == [][hl'.period = hl.period]_vars

\* the rate_limited_total counters, by scope
RateLimited == << metrics.rateLimitedGlobal, metrics.rateLimitedTenant >>

\* handler h takes a step that ends its request with result res
RejectedNow(h, res) == hs'[h] # hs[h] /\ hs[h].result = "" /\ hs'[h].result = res

\* the admission stages of handler h run in the order tenant check, global
\* bucket, per-tenant bucket, each configured stage exactly once
AdmissionOrder(h) ==
  /\ hs'[h].pc = "ratelimit_global" /\ hs[h].pc # "ratelimit_global"
       => hs[h].pc = "tenant" /\ hs[h].gl # Nil
  /\ hs'[h].pc = "ratelimit_tenant" /\ hs[h].pc # "ratelimit_tenant"
       => \/ hs[h].pc = "ratelimit_global"
          \/ hs[h].pc = "tenant" /\ hs[h].gl = Nil
  /\ hs'[h].pc = "read" /\ hs[h].pc # "read"
       => \/ hs[h].pc = "ratelimit_tenant"
          \/ hs[h].pc = "ratelimit_global" /\ hs[h].tl = Nil
          \/ hs[h].pc = "tenant" /\ (~hs'[h].cfg.RateLimitEnabled
                                      \/ (hs[h].gl = Nil /\ hs[h].tl = Nil))

\* C37: admission runs in the order tenant check, global bucket, per-tenant
\* bucket and stops at the first rejection: a request rejected for a missing
\* tenant consumes no token; one rejected by the global bucket neither creates
\* nor consumes from a per-tenant bucket and increments only
\* rate_limited_total{scope=global}; one rejected by the per-tenant bucket
\* increments only rate_limited_total{scope=tenant}; the 429 body names the
\* rejecting scope.
C37_AdmissionOrder ==
  [][ \A h \in Handlers :
        /\ AdmissionOrder(h)
        /\ RejectedNow(h, "missing_tenant") =>
             /\ hs[h].pc = "tenant"
             /\ UNCHANGED << gLims, tLims, RateLimited >>
        /\ RejectedNow(h, "rate_limited") =>
             /\ hs'[h].status = 429
             /\ \/ /\ hs[h].pc = "ratelimit_global"
                   /\ hs'[h].text = "rate limited (global)"
                   /\ UNCHANGED << gLims, tLims >>
                   /\ metrics'.rateLimitedGlobal = metrics.rateLimitedGlobal + 1
                   /\ metrics'.rateLimitedTenant = metrics.rateLimitedTenant
                \/ /\ hs[h].pc = "ratelimit_tenant"
                   /\ hs'[h].text = "rate limited (tenant)"
                   /\ UNCHANGED gLims
                   /\ metrics'.rateLimitedTenant = metrics.rateLimitedTenant + 1
                   /\ metrics'.rateLimitedGlobal = metrics.rateLimitedGlobal
        /\ (hs'[h] # hs[h] /\ hs[h].result # "") => UNCHANGED << gLims, tLims, RateLimited >>
    ]_vars

\* a request was rejected by the global bucket while the tenant's bucket,
\* created by an earlier request, keeps its tokens
C37_Witness ==
  /\ hs["h1"].result = "rate_limited"
  /\ hs["h1"].text = "rate limited (global)"
  /\ metrics.rateLimitedGlobal = 1
  /\ metrics.rateLimitedTenant = 0
  /\ tenantLimiters # Nil
  /\ "acme" \in DOMAIN tLims[tenantLimiters].limiters
  /\ tLims[tenantLimiters].limiters["acme"].tokens = 2

\* a request was rejected by the per-tenant bucket after it took a token from
\* the global bucket
C37_TenantWitness ==
  /\ hs["h1"].result = "rate_limited"
  /\ hs["h1"].text = "rate limited (tenant)"
  /\ metrics.rateLimitedGlobal = 0
  /\ metrics.rateLimitedTenant = 1
  /\ globalLimiter # Nil
  /\ gLims[globalLimiter].tokens = gLims[globalLimiter].burst - 2

\* a request without a tenant was rejected while every bucket is full
C37_MissingTenantWitness ==
  /\ hs["h1"].result = "missing_tenant"
  /\ globalLimiter # Nil
  /\ gLims[globalLimiter].tokens = gLims[globalLimiter].burst
  /\ tenantLimiters # Nil
  /\ tLims[tenantLimiters].limiters = << >>

\* the per-tenant limiter set a handler took in its snapshot, before and
\* after the step
SetOf(h) == tLims[hs[h].tl]
SetAfter(h) == tLims'[hs[h].tl]

\* handler h's step through tenantLimiters.get(tenant) and Allow(): the
\* tenant's bucket is the one already in the set when there is one (it loses
\* one token, or none when it is empty and the request is rejected), a full
\* bucket minus this request's token when there was none; the buckets of
\* all other tenants, and all other sets, are untouched
SameBucket(h) ==
  LET t == hs[h].tenant
      before == SetOf(h).limiters
      after == SetAfter(h).limiters
  IN /\ DOMAIN after = DOMAIN before \cup {t}
     /\ \A o \in DOMAIN before \ {t} : after[o] = before[o]
     /\ \A i \in DOMAIN tLims \ {hs[h].tl} : tLims'[i] = tLims[i]
     /\ after[t].rps = SetOf(h).rps /\ after[t].burst = SetOf(h).burst
     /\ LET had == IF t \in DOMAIN before THEN before[t].tokens ELSE SetOf(h).burst
        IN  IF had > 0
            THEN after[t].tokens = had - 1 /\ hs'[h].pc = "read"
            ELSE after[t].tokens = 0 /\ hs'[h].result = "rate_limited"

\* outside a reload's write lock, the published per-tenant set and every
\* bucket in it carry the (rps, burst) derived from the published configuration
BucketsOfCurrentConfig ==
  (mu.writer = NoHolder /\ tenantLimiters # Nil) =>
    LET p == tLims[tenantLimiters] IN
    /\ cfg.RateLimitEnabled
    /\ p.rps = cfg.RateLimitPerTenantRPS
    /\ p.burst = DeriveBurst(cfg.RateLimitPerTenantRPS, cfg.RateLimitPerTenantBurst)
    /\ \A t \in DOMAIN p.limiters :
         /\ p.limiters[t].rps = p.rps
         /\ p.limiters[t].burst = p.burst
         /\ p.limiters[t].tokens \in 0..p.burst

\* C38: within one per-tenant limiter set, concurrent handlers for the same
\* tenant always obtain the same bucket (at most one bucket is ever created
\* per tenant, no created bucket is lost or overwritten), buckets of different
\* tenants are independent, and every bucket in the published set was created
\* with the (rps, burst) derived from the published configuration.
C38_OneBucketPerTenant ==
  [][ /\ BucketsOfCurrentConfig'
      /\ \A h \in Handlers :
           (hs[h].pc = "ratelimit_tenant" /\ hs'[h] # hs[h]) => SameBucket(h)
      /\ \A i \in DOMAIN tLims :
           /\ DOMAIN tLims[i].limiters \subseteq DOMAIN tLims'[i].limiters
           /\ tLims'[i].rps = tLims[i].rps /\ tLims'[i].burst = tLims[i].burst
    ]_vars

\* two requests of tenant acme are in flight on the same set: the first took
\* the only token of the tenant's bucket, the second was rejected by it, while
\* no bucket of another tenant exists
C38_Witness ==
  /\ hs["h1"].tenant = "acme" /\ hs["h2"].tenant = "acme"
  /\ hs["h1"].tl = hs["h2"].tl /\ hs["h1"].tl # Nil
  /\ {hs["h1"].pc, hs["h2"].pc} = {"writing", "track_total"}
  /\ \E h \in Handlers : hs[h].text = "rate limited (tenant)"
  /\ DOMAIN tLims[hs["h1"].tl].limiters = {"acme"}
  /\ tLims[hs["h1"].tl].limiters["acme"].tokens = 0

\* requests of two tenants are in flight on the same set, each admitted by
\* its own bucket
C38_TwoTenantsWitness ==
  /\ {hs["h1"].tenant, hs["h2"].tenant} = {"acme", "anon"}
  /\ hs["h1"].tl = hs["h2"].tl /\ hs["h1"].tl # Nil
  /\ hs["h1"].pc = "writing" /\ hs["h2"].pc = "writing"
  /\ DOMAIN tLims[hs["h1"].tl].limiters = {"acme", "anon"}

\* C39: at every health tick, also when push handlers update the counters
\* while the evaluator takes its snapshot, the window deltas satisfy
\* dS + dE <= dT, so the error rate and the SLA ratio lie in [0,1] and no
\* error is attributed to a window that does not also count its request.
C39_WindowDeltas ==
  /\ hl.dSucc + hl.dErr <= hl.dTotal
  /\ hl.dTotal > 0 =>
       /\ (hl.dErr * 100) \div hl.dTotal \in 0..100
       /\ (hl.dSucc * 100) \div hl.dTotal \in 0..100

\* the counters themselves never hold more results than requests: TrackResult
\* adds to totalAll first
C39_CountersOrdered == metrics.totalSuccess + metrics.totalError <= metrics.totalAll

====
